---- MODULE Spec2Model ----
(***************************************************************************)
(* Sky-position core of the observatory application (utils/astro.ts), the  *)
(* catalogs it reads (data/celestialBodies.ts, data/stars.ts) and the      *)
(* per-frame caller in App.tsx.                                            *)
(*                                                                         *)
(* Numbers.  The program computes in IEEE doubles; the model computes in   *)
(* fixed point on integers:                                                *)
(*   - radians and pure numbers (sines, eccentricities, distances in AU)   *)
(*     are held in thousandths (Scale);                                    *)
(*   - degrees, hours, days and pixels are held in hundredths (AngScale);  *)
(*   - rates per day are held in ten-thousandths (RateScale).              *)
(* NaN is one distinguished value that every operation propagates the way  *)
(* the JavaScript operators do.  A quotient by zero (Infinity in           *)
(* JavaScript, whose only consumer in this program is Math.acos, which     *)
(* maps it to NaN) is modelled as NaN as well.                             *)
(***************************************************************************)
EXTENDS Integers, Sequences, FiniteSets, TLC

Scale == 10 * 10 * 10
AngScale == 10 * 10
RateScale == 10 * 10 * 10 * 10

NaN == 0 - 2 * Scale * Scale * Scale

IsNum(x) == x # NaN

Abs(x) == IF x < 0 THEN 0 - x ELSE x
Sgn(x) == IF x < 0 THEN 0 - 1 ELSE IF x > 0 THEN 1 ELSE 0

\* ---- JavaScript number operators on fixed-point values -----------------

Add(a, b) == IF a = NaN \/ b = NaN THEN NaN ELSE a + b
Sub(a, b) == IF a = NaN \/ b = NaN THEN NaN ELSE a - b

\* x * n / dd rounded to the nearest unit, without leaving 32 bits:
\* x = q*dd + r and n = qn*dd + rn give x*n/dd = q*n + r*qn + r*rn/dd.
MulDivNat(x, n, dd) ==
    (x \div dd) * n + (x % dd) * (n \div dd) + (((x % dd) * (n % dd) + (dd \div 2)) \div dd)

MulDiv(x, n, dd) ==
    IF x = NaN \/ n = NaN \/ dd = NaN \/ dd = 0 THEN NaN
    ELSE Sgn(x) * Sgn(n) * Sgn(dd) * MulDivNat(Abs(x), Abs(n), Abs(dd))

\* a * s for a pure number s (held in thousandths); the result has a's unit.
Mul(a, s) == MulDiv(a, s, Scale)
\* a / s for a pure number s (held in thousandths).
Div(a, s) == MulDiv(a, Scale, s)
\* a / k for an integer literal k of the program.
DivInt(a, k) == MulDiv(a, 1, k)
\* a * k for an integer literal k of the program.
MulInt(a, k) == IF a = NaN THEN NaN ELSE a * k
\* rate * d: a rate per day (ten-thousandths) times days (hundredths).
MulRate(rate, d) == MulDiv(d, rate, RateScale)

\* JavaScript %: the remainder takes the sign of the dividend.
JsMod(a, m) == IF a = NaN \/ m = NaN \/ m = 0 THEN NaN ELSE Sgn(a) * (Abs(a) % Abs(m))

\* Comparisons: every comparison with NaN is false.
Lt(a, b) == a # NaN /\ b # NaN /\ a < b
Gt(a, b) == a # NaN /\ b # NaN /\ a > b
Ge(a, b) == a # NaN /\ b # NaN /\ a >= b

JsMin(a, b) == IF a = NaN \/ b = NaN THEN NaN ELSE IF a < b THEN a ELSE b

\* ---- Math.* on fixed-point values ---------------------------------------

\* Math.PI, PI/2 and 2*PI in thousandths of a radian.
Pi == 3142
HalfPi == 1571
TwoPi == 6283

\* sin on [0, PI/2] by its Taylor series, computed in ten-thousandths.
\* The next term of the series: t * X2 / k, for X2 = X * X.
Term(t, X2, k) == ((t * X2) \div RateScale) \div k

SinSeries(X, t3, t5, t7, t9) == (X - t3 + t5 - t7 + t9 + 5) \div 10
SinTerms9(X, X2, t3, t5, t7) == SinSeries(X, t3, t5, t7, Term(t7, X2, 72))
SinTerms7(X, X2, t3, t5) == SinTerms9(X, X2, t3, t5, Term(t5, X2, 42))
SinTerms5(X, X2, t3) == SinTerms7(X, X2, t3, Term(t3, X2, 20))
SinTerms3(X, X2) == SinTerms5(X, X2, Term(X, X2, 6))
AtMostOne(m) == IF m > Scale THEN Scale ELSE m

SinQuarter(x) == AtMostOne(SinTerms3(10 * x, (10 * x * 10 * x) \div RateScale))

\* sin on [0, 2*PI] from its first quarter: the angle folded into [0, PI/2]
\* and the sign of the half turn it lies in.
Fold(y) ==
    IF y <= HalfPi THEN y
    ELSE IF y <= Pi THEN Pi - y
    ELSE IF y <= Pi + HalfPi - 1 THEN y - Pi
    ELSE TwoPi - y

SinTable == [y \in 0..TwoPi |-> (IF y <= Pi THEN 1 ELSE 0 - 1) * SinQuarter(Fold(y))]

\* x modulo 2*PI, in 0..TwoPi, with 2*PI = 710/113: the sine of a large
\* angle (an hour angle of thousands of turns) keeps its precision, as it
\* does in the program.
Reduce(x) == ((((x % 710000) * 113) % 710000) + 56) \div 113

Sin(x) == IF x = NaN THEN NaN ELSE SinTable[Reduce(x)]
Cos(x) == IF x = NaN THEN NaN ELSE SinTable[Reduce(x + HalfPi)]
Tan(x) == Div(Sin(x), Cos(x))

\* The least y in lo..hi with P(y), for a monotone P that holds at hi.
RECURSIVE Least(_, _, _)
Least(P(_), lo, hi) ==
    IF lo >= hi THEN hi
    ELSE LET mid == (lo + hi) \div 2
         IN  IF P(mid) THEN Least(P, lo, mid) ELSE Least(P, mid + 1, hi)

\* asin on [0, 1]: the angle of [0, PI/2] whose sine is v; asin(1) is PI/2.
AsinTable ==
    [v \in 0..Scale |->
        LET P(y) == SinTable[y] >= v
        IN  IF v = Scale THEN HalfPi ELSE Least(P, 0, HalfPi)]

\* Math.asin: NaN outside [-1, 1].
Asin(v) ==
    IF v = NaN \/ Abs(v) > Scale THEN NaN
    ELSE Sgn(v) * AsinTable[Abs(v)]

\* Math.acos: NaN outside [-1, 1], else in [0, PI].
Acos(v) == Sub(HalfPi, Asin(v))

\* atan on [0, 1]: the angle of [0, PI/4] whose tangent is q.
AtanTable ==
    [q \in 0..Scale |->
        LET P(y) == SinTable[y] * Scale >= q * SinTable[y + HalfPi]
        IN  Least(P, 0, HalfPi \div 2)]

\* Math.atan2: the angle of (x, y), in [-PI, PI].
\* The angle of (ax, ay) in the first quadrant, by the smaller of the two
\* ratios.
AtanQuotient(lesser, greater) == AtanTable[MulDivNat(lesser, Scale, greater)]
FirstQuadrant(ay, ax) ==
    IF ay <= ax THEN AtanQuotient(ay, ax) ELSE HalfPi - AtanQuotient(ax, ay)

InQuadrant(y, x, a) ==
    IF x >= 0 THEN Sgn(y) * a
    ELSE IF y >= 0 THEN Pi - a
    ELSE a - Pi

Atan2(y, x) ==
    IF y = NaN \/ x = NaN THEN NaN
    ELSE IF x = 0 /\ y = 0 THEN 0
    ELSE InQuadrant(y, x, FirstQuadrant(Abs(y), Abs(x)))

\* Math.sqrt: NaN below zero.
Sqrt(v) ==
    IF v = NaN \/ v < 0 THEN NaN
    ELSE LET P(y) == (y + 1) * (y + 1) > v * Scale
         IN  Least(P, 0, 46000)

\* toRad / toDeg: degrees in hundredths <-> radians in thousandths, with
\* PI = 355/113, so that deg * PI / 180 is deg_c * 355 / (113 * 18).
toRad(deg) == MulDiv(deg, 355, 2034)
toDeg(rad) == MulDiv(rad, 2034, 355)

\* ---- Time base (utils/astro.ts) -----------------------------------------

\* A Date is [day, ms, tz]: getTime() = day * 86400000 + ms milliseconds
\* with 0 <= ms < 86400000, and tz = getTimezoneOffset() in minutes.
MsPerDay == 86400000
MinutesPerDay == 1440

\* date.getTime() / 86400000, in hundredths of a day.
DaysOfTime(date) ==
    IF date.day = NaN THEN NaN
    ELSE date.day * AngScale + date.ms \div (MsPerDay \div AngScale)

\* A Julian Day that adds the time-zone offset.
getJulianDay_offsetAdded(date) ==
    Add(Add(DaysOfTime(date), MulDiv(date.tz, AngScale, MinutesPerDay)), 244058750)

\* 2440587.5 + ... and 2451545.0, in hundredths of a day.
getJulianDay(date) ==
    Add(Sub(DaysOfTime(date), MulDiv(date.tz, AngScale, MinutesPerDay)), 244058750)

EpochDays(date) == Sub(getJulianDay(date), 245154500)

\* ---- Sidereal clock ------------------------------------------------------

getLocalSiderealTime(date, coords) ==
    LET jd == getJulianDay(date)
        d == Sub(jd, 245154500)
        GMST == Add(1870, MulRate(240657, d))          \* 18.697374558 + 24.06570982441908 * d
        LST_rad == toRad(Add(MulInt(GMST, 15), coords.longitude))
    IN  DivInt(toDeg(LST_rad), 15)

\* ---- Horizontal transform ------------------------------------------------

\* A transform that also reflects the azimuth when sin(ha) is 0.
raDecToAzAlt_reflectOnMeridian(ra, dec, lst, lat) ==
    LET latRad == toRad(lat)
        decRad == toRad(dec)
        ha == toRad(MulInt(Sub(lst, ra), 15))
        sinAlt == Add(Mul(Sin(decRad), Sin(latRad)),
                      Mul(Mul(Cos(decRad), Cos(latRad)), Cos(ha)))
        altitude == toDeg(Asin(sinAlt))
        cosAz == Div(Sub(Sin(decRad), Mul(Sin(latRad), sinAlt)),
                     Mul(Cos(latRad), Cos(toRad(altitude))))
        azimuth == toDeg(Acos(cosAz))
    IN  [azimuth |-> IF Ge(Sin(ha), 0) THEN Sub(36000, azimuth) ELSE azimuth,
         altitude |-> altitude]

raDecToAzAlt(ra, dec, lst, lat) ==
    LET latRad == toRad(lat)
        decRad == toRad(dec)
        ha == toRad(MulInt(Sub(lst, ra), 15))
        sinAlt == Add(Mul(Sin(decRad), Sin(latRad)),
                      Mul(Mul(Cos(decRad), Cos(latRad)), Cos(ha)))
        altitude == toDeg(Asin(sinAlt))
        cosAz == Div(Sub(Sin(decRad), Mul(Sin(latRad), sinAlt)),
                     Mul(Cos(latRad), Cos(toRad(altitude))))
        azimuth == toDeg(Acos(cosAz))
    IN  [azimuth |-> IF Gt(Sin(ha), 0) THEN Sub(36000, azimuth) ELSE azimuth,
         altitude |-> altitude]

\* ---- Body ephemeris: Sun -------------------------------------------------

\* c * d for a coefficient c given in 1e-9 per day; the result in thousandths.
TinyRate(c9, d) == DivInt(MulRate(c9, d), RateScale)

\* if (ra < 0) ra += 24
WrapHours(ra) == IF Lt(ra, 0) THEN Add(ra, 2400) ELSE ra

getSunPosition(date) ==
    LET jd == getJulianDay(date)
        n == Sub(jd, 245154500)
        L == JsMod(Add(28046, MulRate(9856, n)), 36000)           \* (280.460 + 0.9856474 * n) % 360
        g == toRad(JsMod(Add(35753, MulRate(9856, n)), 36000))    \* (357.528 + 0.9856003 * n) % 360
        lambda == toRad(Add(Add(L, Mul(192, Sin(g))), Mul(2, Sin(MulInt(g, 2)))))
        epsilon == toRad(Sub(2344, DivInt(TinyRate(400, n), 10))) \* 23.439 - 0.0000004 * n
        raRad == Atan2(Mul(Cos(epsilon), Sin(lambda)), Cos(lambda))
        ra == DivInt(toDeg(raRad), 15)
        decRad == Asin(Mul(Sin(epsilon), Sin(lambda)))
    IN  [ra |-> WrapHours(ra), dec |-> toDeg(decRad)]

\* ---- Body ephemeris: Moon ------------------------------------------------

getMoonPosition(date) ==
    LET jd == getJulianDay(date)
        d == Sub(jd, 245154500)
        l == toRad(JsMod(Add(21832, MulRate(131764, d)), 36000))  \* (218.316 + 13.176396 * d) % 360
        m == toRad(JsMod(Add(13496, MulRate(130650, d)), 36000))  \* (134.963 + 13.064993 * d) % 360
        f == toRad(JsMod(Add(9327, MulRate(132294, d)), 36000))   \* (93.272 + 13.229350 * d) % 360
        lon == Add(l, toRad(Mul(629, Sin(m))))                    \* 6.289 * sin(m)
        lat == toRad(Mul(513, Sin(f)))                            \* 5.128 * sin(f)
        epsilon == toRad(2344)                                    \* 23.4397
        ra == DivInt(toDeg(Atan2(Sub(Mul(Sin(lon), Cos(epsilon)), Mul(Tan(lat), Sin(epsilon))),
                                 Cos(lon))), 15)
        dec == toDeg(Asin(Add(Mul(Sin(lat), Cos(epsilon)),
                              Mul(Mul(Cos(lat), Sin(epsilon)), Sin(lon)))))
    IN  [ra |-> WrapHours(ra), dec |-> dec]

\* ---- Body ephemeris: planets ---------------------------------------------

\* An update whose eccentricity is one thousandth too large.
KeplerUpdate_eccentricityOff(M, e, E) == Add(M, Mul(Add(e, 1), Sin(E)))

\* E = M + e * Math.sin(E)
KeplerUpdate(M, e, E) == Add(M, Mul(e, Sin(E)))

\* for (let k = 0; k < n; k++) E = M + e * Math.sin(E): the final E, and the
\* final k, which is the number of updates the loop has applied.
RECURSIVE KeplerLoop(_, _, _, _, _)
KeplerLoop(M, e, E, k, n) ==
    IF k < n THEN KeplerLoop(M, e, KeplerUpdate(M, e, E), k + 1, n)
    ELSE [E |-> E, k |-> k]

\* A solver with a convergence check: it stops once an update leaves E as it is.
RECURSIVE KeplerUntilFixed(_, _, _, _, _)
KeplerUntilFixed(M, e, E, k, n) ==
    IF k < n /\ KeplerUpdate(M, e, E) # E
    THEN KeplerUntilFixed(M, e, KeplerUpdate(M, e, E), k + 1, n)
    ELSE [E |-> E, k |-> k]

SolvePlanetKepler_converging(M, e) ==
    LET loop == KeplerUntilFixed(M, e, M, 0, 6)
    IN  [E |-> loop.E, updates |-> loop.k]

\* The loop's result as the solve's: the final E and the updates applied,
\* the loop's own and those made before it.
Solved(loop, before) == [E |-> loop.E, updates |-> before + loop.k]

\* let E = M; for (let k = 0; k < 6; k++) ...
SolvePlanetKepler(M, e) == Solved(KeplerLoop(M, e, M, 0, 6), 0)

\* An Earth solver whose five loop iterations start from E = M_earth.
SolveEarthKepler_fromMeanAnomaly(M_earth, e_earth) ==
    LET loop == KeplerLoop(M_earth, e_earth, M_earth, 0, 5)
    IN  [E |-> loop.E, updates |-> loop.k]

\* let E_earth = M_earth + e_earth * Math.sin(M_earth); for (let k = 0; k < 5; k++) ...
SolveEarthKepler(M_earth, e_earth) ==
    Solved(KeplerLoop(M_earth, e_earth, KeplerUpdate(M_earth, e_earth, M_earth), 0, 5), 1)

\* An orbital element [value, value_per_day_change] at d days, for an angle
\* in degrees (hundredths) and for a pure number (thousandths).
ElementDeg(el, d) == Add(el[1], MulRate(el[2], d))
ElementNum(el, d) == Add(el[1], MulInt(MulRate(el[2], d), 10))

\* const M = (L - w + 2 * Math.PI) % (2 * Math.PI)
MeanAnomaly(L, w) == JsMod(Add(Sub(L, w), TwoPi), TwoPi)

\* const M_earth, const e_earth: the Earth elements of getPlanetPosition.
EarthMeanAnomaly(d) == toRad(JsMod(Add(35753, MulRate(9856, d)), 36000))  \* (357.52911 + 0.98560028 * d) % 360
EarthEccentricity(d) == Sub(17, TinyRate(42037, d))                        \* 0.016708634 - 0.000042037 * d

\* The elements at d days from J2000.0 and the two mean anomalies
\* (getPlanetPosition, lines 98-109 and 123-124).
PlanetElements(planet, d) ==
    [d |-> d,
     a |-> ElementNum(planet.semimajorAxis, d),
     e |-> ElementNum(planet.eccentricity, d),
     i |-> toRad(ElementDeg(planet.inclination, d)),
     L |-> toRad(JsMod(ElementDeg(planet.meanLongitude, d), 36000)),
     w |-> toRad(ElementDeg(planet.longitudeOfPerihelion, d)),
     N |-> toRad(ElementDeg(planet.longitudeOfAscendingNode, d)),
     M_earth |-> EarthMeanAnomaly(d),
     e_earth |-> EarthEccentricity(d)]

\* The two Kepler solves (lines 109-114 and 125-128), for the mean anomaly M.
KeplerSolved(el, M, kepler, keplerEarth) ==
    [M |-> M, E |-> kepler.E, updates |-> kepler.updates,
     E_earth |-> keplerEarth.E, updatesEarth |-> keplerEarth.updates] @@ el

PlanetAnomalies(el, M) ==
    KeplerSolved(el, M, SolvePlanetKepler(M, el.e), SolveEarthKepler(el.M_earth, el.e_earth))

\* Position in the orbital plane, turned into the ecliptic frame
\* (lines 116-121).
EclipticOf(s, x_orb, y_orb) ==
    [x_ecl |-> Sub(Mul(x_orb, Sub(Mul(Cos(s.w), Cos(s.N)), Mul(Mul(Sin(s.w), Sin(s.N)), Cos(s.i)))),
                   Mul(y_orb, Add(Mul(Sin(s.w), Cos(s.N)), Mul(Mul(Cos(s.w), Sin(s.N)), Cos(s.i))))),
     y_ecl |-> Add(Mul(x_orb, Add(Mul(Cos(s.w), Sin(s.N)), Mul(Mul(Sin(s.w), Cos(s.N)), Cos(s.i)))),
                   Mul(y_orb, Sub(Mul(Mul(Cos(s.w), Cos(s.N)), Cos(s.i)), Mul(Sin(s.w), Sin(s.N))))),
     z_ecl |-> Add(Mul(x_orb, Mul(Sin(s.w), Sin(s.i))), Mul(y_orb, Mul(Cos(s.w), Sin(s.i))))]

Heliocentric(s) ==
    EclipticOf(s, Mul(s.a, Sub(Cos(s.E), s.e)),
                  Mul(Mul(s.a, Sqrt(Sub(Scale, Mul(s.e, s.e)))), Sin(s.E)))

\* Earth's heliocentric position (lines 130-131).
EarthHeliocentric(s) ==
    [x_earth_helio |-> Sub(Cos(s.E_earth), s.e_earth),
     y_earth_helio |-> Mul(Sqrt(Sub(Scale, Mul(s.e_earth, s.e_earth))), Sin(s.E_earth))]

\* Geocentric ecliptic coordinates (lines 133-135).
Geocentric(ecl, earth) ==
    [x_geo_ecl |-> Sub(ecl.x_ecl, earth.x_earth_helio),
     y_geo_ecl |-> Sub(ecl.y_ecl, earth.y_earth_helio),
     z_geo_ecl |-> ecl.z_ecl]

\* Right ascension and declination of equatorial (x, y, z) (lines 142-144).
RaDecOf(x_geo_eq, y_geo_eq, z_geo_eq) ==
    [ra |-> WrapHours(DivInt(toDeg(Atan2(y_geo_eq, x_geo_eq)), 15)),
     dec |-> toDeg(Atan2(z_geo_eq, Sqrt(Add(Mul(x_geo_eq, x_geo_eq), Mul(y_geo_eq, y_geo_eq)))))]

\* The rotation by the obliquity of the ecliptic (lines 137-140).
GeocentricEquatorial(geo, eclipticObliquity) ==
    RaDecOf(geo.x_geo_ecl,
            Sub(Mul(geo.y_geo_ecl, Cos(eclipticObliquity)), Mul(geo.z_geo_ecl, Sin(eclipticObliquity))),
            Add(Mul(geo.y_geo_ecl, Sin(eclipticObliquity)), Mul(geo.z_geo_ecl, Cos(eclipticObliquity))))

\* The locals of getPlanetPosition the properties speak of, with its result.
OrbitRecord(s, eq) ==
    [d |-> s.d, e |-> s.e, L |-> s.L, w |-> s.w, M |-> s.M,
     E |-> s.E, updates |-> s.updates,
     M_earth |-> s.M_earth, e_earth |-> s.e_earth,
     E_earth |-> s.E_earth, updatesEarth |-> s.updatesEarth,
     ra |-> eq.ra, dec |-> eq.dec]

PlanetPlaced(s) ==
    OrbitRecord(s, GeocentricEquatorial(Geocentric(Heliocentric(s), EarthHeliocentric(s)),
                                        toRad(2344)))                  \* 23.4392911

PlanetSolved(el) == PlanetPlaced(PlanetAnomalies(el, MeanAnomaly(el.L, el.w)))

PlanetOrbit(planet, date) == PlanetSolved(PlanetElements(planet, EpochDays(date)))

RaDec(orbit) == [ra |-> orbit.ra, dec |-> orbit.dec]

getPlanetPosition(planet, date) == RaDec(PlanetOrbit(planet, date))

\* ---- Screen projection ---------------------------------------------------

\* A projection that divides the altitude by 100 instead of 90.
projectToScreen_perHundred(azimuth, altitude, size, rotation) ==
    LET centerX == DivInt(size.width, 2)
        centerY == DivInt(size.height, 2)
        radius == Mul(JsMin(centerX, centerY), 950)
        r == MulDiv(Sub(10000, altitude), radius, 10000)
        theta == toRad(Add(Sub(azimuth, 9000), rotation))
    IN  [x |-> Add(centerX, Mul(r, Cos(theta))),
         y |-> Add(centerY, Mul(r, Sin(theta)))]

\* A projection whose horizon circle fills the viewport (no 0.95 margin).
projectToScreen_noMargin(azimuth, altitude, size, rotation) ==
    LET centerX == DivInt(size.width, 2)
        centerY == DivInt(size.height, 2)
        radius == JsMin(centerX, centerY)
        r == MulDiv(Sub(9000, altitude), radius, 9000)
        theta == toRad(Add(Sub(azimuth, 9000), rotation))
    IN  [x |-> Add(centerX, Mul(r, Cos(theta))),
         y |-> Add(centerY, Mul(r, Sin(theta)))]

\* A projection that turns the map against the rotation offset.
projectToScreen_counterRotation(azimuth, altitude, size, rotation) ==
    LET centerX == DivInt(size.width, 2)
        centerY == DivInt(size.height, 2)
        radius == Mul(JsMin(centerX, centerY), 950)
        r == MulDiv(Sub(9000, altitude), radius, 9000)
        theta == toRad(Sub(Sub(azimuth, 9000), rotation))
    IN  [x |-> Add(centerX, Mul(r, Cos(theta))),
         y |-> Add(centerY, Mul(r, Sin(theta)))]

projectToScreen(azimuth, altitude, size, rotation) ==
    LET centerX == DivInt(size.width, 2)
        centerY == DivInt(size.height, 2)
        radius == Mul(JsMin(centerX, centerY), 950)
        r == MulDiv(Sub(9000, altitude), radius, 9000)                     \* (1 - altitude / 90) * radius
        theta == toRad(Add(Sub(azimuth, 9000), rotation))
    IN  [x |-> Add(centerX, Mul(r, Cos(theta))),
         y |-> Add(centerY, Mul(r, Sin(theta)))]

\* ---- Position orchestrator -----------------------------------------------

In(field, obj) == field \in DOMAIN obj

\* A dispatch that looks at the id before it looks for ra and dec.
EquatorialOf_idFirst(obj, date) ==
    IF obj.id = "sun"
    THEN [branch |-> "sun"] @@ getSunPosition(date)
    ELSE IF obj.id = "moon"
    THEN [branch |-> "moon"] @@ getMoonPosition(date)
    ELSE IF In("ra", obj) /\ In("dec", obj)
    THEN [branch |-> "star", ra |-> obj.ra, dec |-> obj.dec]
    ELSE IF In("type", obj) /\ obj.type = "planet"
    THEN [branch |-> "planet"] @@ getPlanetPosition(obj, date)
    ELSE [branch |-> "fallback", ra |-> 0, dec |-> 0]

\* A dispatch whose last branch places an unknown body at the celestial pole.
EquatorialOf_fallbackPole(obj, date) ==
    IF In("ra", obj) /\ In("dec", obj)
    THEN [branch |-> "star", ra |-> obj.ra, dec |-> obj.dec]
    ELSE IF In("type", obj) /\ obj.type = "planet"
    THEN [branch |-> "planet"] @@ getPlanetPosition(obj, date)
    ELSE IF obj.id = "sun"
    THEN [branch |-> "sun"] @@ getSunPosition(date)
    ELSE IF obj.id = "moon"
    THEN [branch |-> "moon"] @@ getMoonPosition(date)
    ELSE [branch |-> "fallback", ra |-> 0, dec |-> 9000]

\* The equatorial coordinates calculateObjectPosition selects for obj, with
\* the branch of the dispatch that supplied them.
EquatorialOf(obj, date) ==
    IF In("ra", obj) /\ In("dec", obj)
    THEN [branch |-> "star", ra |-> obj.ra, dec |-> obj.dec]
    ELSE IF In("type", obj) /\ obj.type = "planet"
    THEN [branch |-> "planet"] @@ getPlanetPosition(obj, date)
    ELSE IF obj.id = "sun"
    THEN [branch |-> "sun"] @@ getSunPosition(date)
    ELSE IF obj.id = "moon"
    THEN [branch |-> "moon"] @@ getMoonPosition(date)
    ELSE [branch |-> "fallback", ra |-> 0, dec |-> 0]

\* An orchestrator that counts a body on the horizon as not visible.
calculateObjectPosition_strictHorizon(obj, date, coords, screenSize, rotation) ==
    LET eq == EquatorialOf(obj, date)
        lst == getLocalSiderealTime(date, coords)
        hor == raDecToAzAlt(eq.ra, eq.dec, lst, coords.latitude)
        pt == projectToScreen(hor.azimuth, hor.altitude, screenSize, rotation)
    IN  [x |-> pt.x, y |-> pt.y, azimuth |-> hor.azimuth, altitude |-> hor.altitude,
         visible |-> Gt(hor.altitude, 0)]

\* An orchestrator that projects a body below the horizon onto the horizon
\* circle while it returns the altitude of the transform.
calculateObjectPosition_clampedProjection(obj, date, coords, screenSize, rotation) ==
    LET eq == EquatorialOf(obj, date)
        lst == getLocalSiderealTime(date, coords)
        hor == raDecToAzAlt(eq.ra, eq.dec, lst, coords.latitude)
        shown == IF Lt(hor.altitude, 0) THEN 0 ELSE hor.altitude
        pt == projectToScreen(hor.azimuth, shown, screenSize, rotation)
    IN  [x |-> pt.x, y |-> pt.y, azimuth |-> hor.azimuth, altitude |-> hor.altitude,
         visible |-> Ge(hor.altitude, 0)]

\* return { x, y, azimuth, altitude, visible: altitude >= 0 }
ScreenPosition(pt, hor) ==
    [x |-> pt.x, y |-> pt.y, azimuth |-> hor.azimuth, altitude |-> hor.altitude,
     visible |-> Ge(hor.altitude, 0)]

\* const { x, y } = projectToScreen(azimuth, altitude, screenSize, rotation)
Projection(hor, screenSize, rotation) ==
    ScreenPosition(projectToScreen(hor.azimuth, hor.altitude, screenSize, rotation), hor)

\* const { azimuth, altitude } = raDecToAzAlt(ra, dec, lst, coords.latitude)
PositionOf(eq, lst, coords, screenSize, rotation) ==
    Projection(raDecToAzAlt(eq.ra, eq.dec, lst, coords.latitude), screenSize, rotation)

calculateObjectPosition(obj, date, coords, screenSize, rotation) ==
    PositionOf(EquatorialOf(obj, date), getLocalSiderealTime(date, coords),
               coords, screenSize, rotation)

\* ---- Catalogs (data/celestialBodies.ts, data/stars.ts) --------------------

\* A planet entry: angles in hundredths of a degree, a and e in thousandths,
\* rates in ten-thousandths per day.  Arrays are 1-based here: el[1] is the
\* program's el[0] (the value) and el[2] its el[1] (the rate).
PlanetEntry(id, a, e, i, L, Lrate, w, N) ==
    [id |-> id, type |-> "planet",
     semimajorAxis |-> <<a, 0>>, eccentricity |-> <<e, 0>>, inclination |-> <<i, 0>>,
     meanLongitude |-> <<L, Lrate>>, longitudeOfPerihelion |-> <<w, 0>>,
     longitudeOfAscendingNode |-> <<N, 0>>]

\* The array literal of CELESTIAL_BODIES, before the module's forEach runs.
CelestialBodiesLiteral ==
    << [id |-> "sun"],
       PlanetEntry("mercury", 387, 206, 701, 25225, 1494726741, 7746, 4833),
       PlanetEntry("venus", 723, 7, 339, 18198, 585178153, 13153, 7668),
       [id |-> "moon"],
       PlanetEntry("mars", 1524, 93, 185, 35545, 191402993, 33604, 4958),
       PlanetEntry("jupiter", 5203, 48, 131, 3440, 30349057, 1475, 10056),
       PlanetEntry("saturn", 9537, 54, 248, 4994, 12221138, 9243, 11372) >>

\* body.meanLongitude[1] = body.meanLongitude[1] / 36525, for planets only.
ConvertRate(body) ==
    IF In("type", body) /\ body.type = "planet"
    THEN [body EXCEPT !.meanLongitude[2] = DivInt(@, 36525)]
    ELSE body

\* Entries of STARS: three of BRIGHTEST_STARS and one of the generic stars,
\* whose ra and dec the module draws at random in [0, 24) and [-90, 90).
STARS ==
    { [id |-> "polaris", ra |-> 253, dec |-> 8926],
      [id |-> "sirius", ra |-> 675, dec |-> 0 - 1670],
      [id |-> "star_0", ra |-> 1270, dec |-> 0] }

\* ---- Inputs ---------------------------------------------------------------

\* Records of the declared parameter type that are no catalog entry: a
\* non-planet AstroObject other than the Sun and the Moon, and a Star whose
\* id is 'sun'.
OtherObjects ==
    { [id |-> "pluto"],
      [id |-> "sun", ra |-> 1875, dec |-> 0 - 2300] }

Dates ==
    { [day |-> 10957, ms |-> 43200000, tz |-> 0],          \* 2000-01-01T12:00:00Z
      [day |-> 10826, ms |-> 43200000, tz |-> 0],          \* 1999-08-23T12:00:00Z
      [day |-> 20759, ms |-> 70000000, tz |-> 0 - 60],     \* 2026-11-02T19:26:40Z, UTC+1
      [day |-> 36525, ms |-> 1000, tz |-> 0],              \* 2070-01-01T00:00:01Z
      [day |-> 0 - 14610, ms |-> 3600000, tz |-> 0] }      \* 1930-01-01T01:00:00Z

Observers ==
    { [latitude |-> 0, longitude |-> 0],
      [latitude |-> 4885, longitude |-> 235],
      [latitude |-> 0 - 3387, longitude |-> 15121] }

Views ==
    { [screenSize |-> [width |-> 80000, height |-> 60000], rotation |-> 0],
      [screenSize |-> [width |-> 60000, height |-> 90000], rotation |-> 9000] }

\* ---- State ----------------------------------------------------------------

VARIABLES
    CELESTIAL_BODIES,   \* the exported array of data/celestialBodies.ts
    loaded,             \* the module body of data/celestialBodies.ts has run
    call,               \* the latest invocation of calculateObjectPosition
    first,              \* an earlier invocation, kept to compare with later ones
    since,              \* the invocations made after `first`, up to MaxSince
    app                 \* the state of the App component (App.tsx) and of the browser session

vars == <<CELESTIAL_BODIES, loaded, call, first, since, app>>

MaxSince == 2

NoCall == [op |-> "none"]

\* The App component has not been mounted.
Unmounted == [mounted |-> FALSE]

\* One invocation as the caller sees it, with the values of the stages.
Observed(obj, date, coords, screenSize, rotation, eq, result) ==
    [op |-> "calculateObjectPosition",
     obj |-> obj, date |-> date, coords |-> coords,
     screenSize |-> screenSize, rotation |-> rotation,
     eq |-> eq,
     orbit |-> IF eq.branch = "planet" THEN PlanetOrbit(obj, date) ELSE <<>>,
     result |-> result]

Invocation(obj, date, coords, screenSize, rotation) ==
    Observed(obj, date, coords, screenSize, rotation,
             EquatorialOf(obj, date),
             calculateObjectPosition(obj, date, coords, screenSize, rotation))

Args(c) == <<c.obj, c.date, c.coords, c.screenSize, c.rotation>>

\* The invocations whose first result is kept in `first`.
IsProbe(c) ==
    /\ c.obj.id \in {"mars", "moon"}
    /\ c.date.day = 20759
    /\ c.coords.latitude = 4885
    /\ c.rotation = 0

\* The catalog once the module body has run, and every input drawn below.
LoadedBodies == {ConvertRate(CelestialBodiesLiteral[n]) : n \in DOMAIN CelestialBodiesLiteral}

Inputs ==
    {<<o, d, c, v>> : o \in LoadedBodies \cup STARS \cup OtherObjects,
                      d \in Dates, c \in Observers, v \in Views}

\* Invocation is a function of its arguments alone (it reads no variable), so
\* its values on Inputs are computed once and looked up.
InvocationTable ==
    [a \in Inputs |-> Invocation(a[1], a[2], a[3], a[4].screenSize, a[4].rotation)]

\* A call that keeps the latest result and returns it again for the same body
\* and date, whatever the observer and the view.
Invoke_cachedByBodyAndDate(obj, date, coords, view) ==
    LET fresh == IF <<obj, date, coords, view>> \in Inputs
                 THEN InvocationTable[<<obj, date, coords, view>>]
                 ELSE Invocation(obj, date, coords, view.screenSize, view.rotation)
    IN  IF call # NoCall /\ call.obj = obj /\ call.date = date
        THEN [fresh EXCEPT !.result = call.result]
        ELSE fresh

Invoke(obj, date, coords, view) ==
    IF <<obj, date, coords, view>> \in Inputs
    THEN InvocationTable[<<obj, date, coords, view>>]
    ELSE Invocation(obj, date, coords, view.screenSize, view.rotation)

Init ==
    /\ CELESTIAL_BODIES = CelestialBodiesLiteral
    /\ loaded = FALSE
    /\ call = NoCall
    /\ first = NoCall
    /\ since = 0
    /\ app = Unmounted

\* A conversion that runs again whenever it is asked to.
ModuleInit_repeated ==
    /\ CELESTIAL_BODIES' = [i \in DOMAIN CELESTIAL_BODIES |-> ConvertRate(CELESTIAL_BODIES[i])]
    /\ loaded' = TRUE
    /\ UNCHANGED <<call, first, since, app>>

\* The forEach at the end of data/celestialBodies.ts, run once on import.
ModuleInit ==
    /\ ~loaded
    /\ CELESTIAL_BODIES' = [i \in DOMAIN CELESTIAL_BODIES |-> ConvertRate(CELESTIAL_BODIES[i])]
    /\ loaded' = TRUE
    /\ UNCHANGED <<call, first, since, app>>

Objects == {CELESTIAL_BODIES[i] : i \in DOMAIN CELESTIAL_BODIES} \cup STARS \cup OtherObjects

\* A call of calculateObjectPosition (App.tsx objectPositions, per body).
Calculate ==
    /\ loaded
    /\ \E obj \in Objects, date \in Dates, coords \in Observers, view \in Views :
         LET c == Invoke(obj, date, coords, view)
         IN  /\ call' = c
             /\ first' = IF first = NoCall /\ IsProbe(c) THEN c ELSE first
             /\ since' = IF first = NoCall THEN 0
                          ELSE IF since < MaxSince THEN since + 1 ELSE since
    /\ UNCHANGED <<CELESTIAL_BODIES, loaded, app>>

Next == ModuleInit \/ Calculate

Spec == Init /\ [][Next]_vars

\* ---- The functions of utils/astro.ts, applied one at a time ----------------
\* Each behaviour applies one function to one argument list.

\* Planets of the declared Planet type with a circular orbit (eccentricity
\* [0, 0]); the mean-longitude rate is per day, as in the loaded catalog.
CircularPlanets ==
    { PlanetEntry("circular", 1000, 0, 0, L, 5240, w, 0) : L \in {0, 9000, 27000}, w \in {0, 10000} }

LoadedPlanets == {b \in LoadedBodies : In("type", b) /\ b.type = "planet"}

\* for (let k = 0; k < 6; k++) E = M + e * Math.sin(E): E on entry (at 0) and
\* after each of the six iterations.
KeplerTrace(M, e) == [n \in 0..6 |-> KeplerLoop(M, e, M, 0, n).E]

PlanetApplied(planet, date, orbit) ==
    [op |-> "getPlanetPosition", planet |-> planet, date |-> date,
     orbit |-> orbit, trace |-> KeplerTrace(orbit.M, orbit.e)]

\* getPlanetPosition(planet, date)
ApplyPlanetPosition ==
    /\ call = NoCall
    /\ \E planet \in LoadedPlanets \cup CircularPlanets, date \in Dates :
         call' = PlanetApplied(planet, date, PlanetOrbit(planet, date))
    /\ UNCHANGED <<CELESTIAL_BODIES, loaded, first, since, app>>

\* Dates around J2000.0 noon: whole days before and after it, and the same
\* instant as the clock of another time zone reports it.
EpochDates ==
    Dates \cup { [day |-> 10957 + n, ms |-> 43200000, tz |-> 0] : n \in (0 - 2)..3 }
          \cup { [day |-> 10957, ms |-> 46800000, tz |-> 60],
                 [day |-> 10957, ms |-> 39600000, tz |-> 0 - 60],
                 [day |-> 20759, ms |-> 73600000, tz |-> 0] }

JulianDayApplied(date, jd) ==
    [op |-> "getJulianDay", date |-> date, jd |-> jd, d |-> Sub(jd, 245154500)]

\* getJulianDay(date), and the epoch jd - 2451545.0 its callers derive from it.
ApplyJulianDay ==
    /\ call = NoCall
    /\ \E date \in EpochDates : call' = JulianDayApplied(date, getJulianDay(date))
    /\ UNCHANGED <<CELESTIAL_BODIES, loaded, first, since, app>>

\* Observers on the meridians that bound the longitude range.
Meridians ==
    Observers \cup { [latitude |-> 0, longitude |-> 0 - 18000], [latitude |-> 0, longitude |-> 18000] }

SiderealTimeApplied(date, coords, lst) ==
    [op |-> "getLocalSiderealTime", date |-> date, coords |-> coords, lst |-> lst]

\* getLocalSiderealTime(date, coords)
ApplySiderealTime ==
    /\ call = NoCall
    /\ \E date \in EpochDates, coords \in Meridians :
         call' = SiderealTimeApplied(date, coords, getLocalSiderealTime(date, coords))
    /\ UNCHANGED <<CELESTIAL_BODIES, loaded, first, since, app>>

\* Arguments of raDecToAzAlt: ra and lst in hours, dec and lat in degrees,
\* with the poles, the equator and hour angles of 0, 6, 12 and 18 hours.
TransformInputs ==
    { <<ra, dec, lst, lat>> :
        ra \in {0, 600, 1270},
        dec \in {0 - 9000, 0 - 1670, 0, 4500, 8926, 9000},
        lst \in {0, 300, 600, 1200, 1270, 1800, 1870, 4276},
        lat \in {0 - 9000, 0 - 3387, 0, 4500, 4885, 9000} }

TransformApplied(ra, dec, lst, lat, hor) ==
    [op |-> "raDecToAzAlt", ra |-> ra, dec |-> dec, lst |-> lst, lat |-> lat, hor |-> hor]

\* raDecToAzAlt(ra, dec, lst, lat)
ApplyRaDecToAzAlt ==
    /\ call = NoCall
    /\ \E a \in TransformInputs :
         call' = TransformApplied(a[1], a[2], a[3], a[4], raDecToAzAlt(a[1], a[2], a[3], a[4]))
    /\ UNCHANGED <<CELESTIAL_BODIES, loaded, first, since, app>>

\* new Date(NaN): getTime() and getTimezoneOffset() are NaN.
InvalidDate == [day |-> NaN, ms |-> 0, tz |-> NaN]

\* Arguments of calculateObjectPosition at the edges of its domain and past
\* them: a star near the celestial pole seen on the meridian from latitude
\* 89, a latitude of 100 degrees, an invalid Date.
EdgeObjects ==
    { [id |-> "near_pole", ra |-> 1870, dec |-> 8800],
      [id |-> "star_0", ra |-> 1270, dec |-> 0],
      [id |-> "sun"] } \cup {p \in LoadedPlanets : p.id = "mars"}

EdgeDates == { [day |-> 10957, ms |-> 43200000, tz |-> 0], InvalidDate }

EdgeObservers ==
    { [latitude |-> 8900, longitude |-> 0],
      [latitude |-> 0, longitude |-> 0],
      [latitude |-> 10000, longitude |-> 0] }

\* calculateObjectPosition(obj, date, coords, screenSize, rotation)
ApplyCalculateObjectPosition ==
    /\ call = NoCall
    /\ \E obj \in EdgeObjects, date \in EdgeDates, coords \in EdgeObservers, view \in Views :
         call' = Invoke(obj, date, coords, view)
    /\ UNCHANGED <<CELESTIAL_BODIES, loaded, first, since, app>>

\* Arguments of projectToScreen: azimuths round the compass, altitudes from
\* the nadir to the zenith, viewports in landscape, portrait, with odd sizes,
\* small, and collapsed to height 0 (width alone is tested by the callers).
ProjectionInputs ==
    { <<az, alt, size, rot>> :
        az \in {0, 4500, 9000, 13370, 18000, 27000, 35999},
        alt \in {0 - 9000, 0 - 4500, 0 - 1000, 0, 1000, 3000, 6000, 9000},
        size \in { [width |-> 80000, height |-> 60000], [width |-> 60000, height |-> 90000],
                   [width |-> 80100, height |-> 60100], [width |-> 20000, height |-> 20000],
                   [width |-> 30000, height |-> 0] },
        rot \in {0, 9000, 0 - 4500} }

ProjectionApplied(azimuth, altitude, size, rotation, pt) ==
    [op |-> "projectToScreen", azimuth |-> azimuth, altitude |-> altitude,
     size |-> size, rotation |-> rotation, pt |-> pt]

\* projectToScreen(azimuth, altitude, size, rotation)
ApplyProjectToScreen ==
    /\ call = NoCall
    /\ \E a \in ProjectionInputs :
         call' = ProjectionApplied(a[1], a[2], a[3], a[4], projectToScreen(a[1], a[2], a[3], a[4]))
    /\ UNCHANGED <<CELESTIAL_BODIES, loaded, first, since, app>>

\* The module of data/celestialBodies.ts has been imported; no function of
\* utils/astro.ts has been applied yet.
UnitInit ==
    /\ CELESTIAL_BODIES = [n \in DOMAIN CelestialBodiesLiteral |-> ConvertRate(CelestialBodiesLiteral[n])]
    /\ loaded = TRUE
    /\ call = NoCall
    /\ first = NoCall
    /\ since = 0
    /\ app = Unmounted

UnitNext ==
    \/ ApplyPlanetPosition
    \/ ApplyJulianDay
    \/ ApplySiderealTime
    \/ ApplyRaDecToAzAlt
    \/ ApplyCalculateObjectPosition
    \/ ApplyProjectToScreen

UnitSpec == UnitInit /\ [][UnitNext]_vars

\* ---- calculateObjectPosition, statement by statement ----------------------

MaxSteps == 20

\* The activation of one call: its arguments, the statement it is at (pc),
\* the locals of getPlanetPosition and of calculateObjectPosition assigned so
\* far, and the statements executed, counted up to MaxSteps.
Activation(obj, date, coords, view) ==
    [op |-> "activation", pc |-> "dispatch",
     obj |-> obj, date |-> date, coords |-> coords,
     screenSize |-> view.screenSize, rotation |-> view.rotation,
     M |-> 0, e |-> 0, E |-> 0, k |-> 0,
     M_earth |-> 0, e_earth |-> 0, E_earth |-> 0, kEarth |-> 0,
     eq |-> <<>>, hor |-> <<>>, result |-> <<>>, steps |-> 0]

At(pc) == call # NoCall /\ call.op = "activation" /\ call.pc = pc

Count(steps) == IF steps < MaxSteps THEN steps + 1 ELSE steps

IsPlanet(obj) == ~(In("ra", obj) /\ In("dec", obj)) /\ In("type", obj) /\ obj.type = "planet"

\* The values the pure stages of the call have for the arguments of the
\* activation: each is a function of its arguments alone, computed once (as
\* in Invoke) and looked up by the statement that evaluates it.
Memo(frame) ==
    Invoke(frame.obj, frame.date, frame.coords,
           [screenSize |-> frame.screenSize, rotation |-> frame.rotation])

HorizontalOf(result) == [azimuth |-> result.azimuth, altitude |-> result.altitude]

\* The caller invokes calculateObjectPosition; a call runs to completion
\* before the next one is made.
Enter ==
    /\ call = NoCall \/ At("returned")
    /\ \E obj \in Objects, date \in Dates, coords \in Observers, view \in Views :
         call' = Activation(obj, date, coords, view)
    /\ UNCHANGED <<CELESTIAL_BODIES, loaded, first, since, app>>

\* Lines 180-196 for a body that is no planet: ra and dec are known at once.
DispatchOther ==
    /\ At("dispatch")
    /\ ~IsPlanet(call.obj)
    /\ call' = [call EXCEPT !.pc = "transform", !.eq = Memo(call).eq, !.steps = Count(@)]
    /\ UNCHANGED <<CELESTIAL_BODIES, loaded, first, since, app>>

\* The elements and the mean anomalies, then let E = M and k = 0.
Entered(frame, orbit) ==
    [frame EXCEPT !.pc = "planetLoop", !.M = orbit.M, !.e = orbit.e,
                  !.M_earth = orbit.M_earth, !.e_earth = orbit.e_earth,
                  !.E = orbit.M, !.k = 0, !.steps = Count(@)]

\* Line 185 and lines 98-111 of getPlanetPosition.
DispatchPlanet ==
    /\ At("dispatch")
    /\ IsPlanet(call.obj)
    /\ call' = Entered(call, Memo(call).orbit)
    /\ UNCHANGED <<CELESTIAL_BODIES, loaded, first, since, app>>

\* A loop whose body leaves k as it is.
PlanetIterate_noIncrement ==
    /\ At("planetLoop")
    /\ call.k < 6
    /\ call' = [call EXCEPT !.E = KeplerUpdate(call.M, call.e, @), !.steps = Count(@)]
    /\ UNCHANGED <<CELESTIAL_BODIES, loaded, first, since, app>>

\* A loop that keeps E in a variable of the module, which every call in
\* progress reads and writes.
PlanetIterate_sharedAnomaly ==
    /\ At("planetLoop")
    /\ call.k < 6
    /\ call' = [call EXCEPT !.E = KeplerUpdate(call.M, call.e, @), !.k = @ + 1,
                            !.steps = Count(@)]
    /\ first' = IF first = NoCall THEN first
                ELSE [first EXCEPT !.E = KeplerUpdate(call.M, call.e, call.E)]
    /\ UNCHANGED <<CELESTIAL_BODIES, loaded, since, app>>

\* for (let k = 0; k < 6; k++) { E = M + e * Math.sin(E); }
PlanetIterate ==
    /\ At("planetLoop")
    /\ call.k < 6
    /\ call' = [call EXCEPT !.E = KeplerUpdate(call.M, call.e, @), !.k = @ + 1,
                            !.steps = Count(@)]
    /\ UNCHANGED <<CELESTIAL_BODIES, loaded, first, since, app>>

\* The loop condition fails; lines 116-125: let E_earth = M_earth + e_earth * sin(M_earth).
PlanetLoopExit ==
    /\ At("planetLoop")
    /\ ~(call.k < 6)
    /\ call' = [call EXCEPT !.pc = "earthLoop",
                            !.E_earth = KeplerUpdate(call.M_earth, call.e_earth, call.M_earth),
                            !.kEarth = 0, !.steps = Count(@)]
    /\ UNCHANGED <<CELESTIAL_BODIES, loaded, first, since, app>>

\* for (let k = 0; k < 5; k++) { E_earth = M_earth + e_earth * Math.sin(E_earth); }
EarthIterate ==
    /\ At("earthLoop")
    /\ call.kEarth < 5
    /\ call' = [call EXCEPT !.E_earth = KeplerUpdate(call.M_earth, call.e_earth, @),
                            !.kEarth = @ + 1, !.steps = Count(@)]
    /\ UNCHANGED <<CELESTIAL_BODIES, loaded, first, since, app>>

\* The rest of getPlanetPosition for the values the two loops have left.
PlacedFrom(frame) ==
    PlanetPlaced(KeplerSolved(PlanetElements(frame.obj, EpochDays(frame.date)), frame.M,
                              [E |-> frame.E, updates |-> frame.k],
                              [E |-> frame.E_earth, updates |-> 1 + frame.kEarth]))

PlanetEquatorial(frame, orbit) ==
    IF frame.E = orbit.E /\ frame.E_earth = orbit.E_earth
    THEN [branch |-> "planet", ra |-> orbit.ra, dec |-> orbit.dec]
    ELSE [branch |-> "planet"] @@ RaDec(PlacedFrom(frame))

\* The loop condition fails; lines 130-146, and getPlanetPosition returns.
EarthLoopExit ==
    /\ At("earthLoop")
    /\ ~(call.kEarth < 5)
    /\ call' = [call EXCEPT !.pc = "transform", !.eq = PlanetEquatorial(call, Memo(call).orbit),
                            !.steps = Count(@)]
    /\ UNCHANGED <<CELESTIAL_BODIES, loaded, first, since, app>>

TransformOf(frame, memo) ==
    IF frame.eq = memo.eq THEN HorizontalOf(memo.result)
    ELSE raDecToAzAlt(frame.eq.ra, frame.eq.dec,
                      getLocalSiderealTime(frame.date, frame.coords), frame.coords.latitude)

\* Lines 198-199.
Transform ==
    /\ At("transform")
    /\ call' = [call EXCEPT !.pc = "project", !.hor = TransformOf(call, Memo(call)),
                            !.steps = Count(@)]
    /\ UNCHANGED <<CELESTIAL_BODIES, loaded, first, since, app>>

ProjectOf(frame, memo) ==
    IF frame.hor = HorizontalOf(memo.result) THEN memo.result
    ELSE Projection(frame.hor, frame.screenSize, frame.rotation)

\* Lines 200-202.
Project ==
    /\ At("project")
    /\ call' = [call EXCEPT !.pc = "returned", !.result = ProjectOf(call, Memo(call)),
                            !.steps = Count(@)]
    /\ UNCHANGED <<CELESTIAL_BODIES, loaded, first, since, app>>

\* One statement of a call in progress.
Step ==
    \/ DispatchOther
    \/ DispatchPlanet
    \/ PlanetIterate
    \/ PlanetLoopExit
    \/ EarthIterate
    \/ EarthLoopExit
    \/ Transform
    \/ Project

StepNext == Enter \/ Step

\* JavaScript runs a call to completion: a call in progress takes its next
\* statement.
StepSpec == UnitInit /\ [][StepNext]_vars /\ WF_vars(Step)

\* ---- The calls of one render, interleaved ---------------------------------

\* The bodies and the instants of the renders whose calls are interleaved.
RenderedBodies == {o \in Objects : o.id \in {"mars", "venus", "moon", "sirius", "pluto"}}

RenderedDates == {d \in Dates : d.day \in {20759, 36525}}

\* objectPositions (App.tsx 681-688) calls calculateObjectPosition once per
\* body with the same simTime, coordinates, screenSize and skyRotation; two
\* of the calls are activated, the second one kept in `first`, and `since`
\* counts the times a call in progress has been suspended, up to MaxSince.
Render ==
    /\ call = NoCall \/ (At("returned") /\ first.pc = "returned")
    /\ \E running \in RenderedBodies, waiting \in RenderedBodies, date \in RenderedDates,
          coords \in {c \in Observers : c.latitude = 4885}, view \in Views :
         /\ call' = Activation(running, date, coords, view)
         /\ first' = Activation(waiting, date, coords, view)
    /\ since' = 0
    /\ UNCHANGED <<CELESTIAL_BODIES, loaded, app>>

\* The running call is suspended after any statement and the other call is
\* resumed: each call keeps its own arguments and locals.
Yield ==
    /\ call # NoCall /\ first # NoCall
    /\ call' = first
    /\ first' = call
    /\ since' = IF call.pc \in {"dispatch", "returned"} \/ since >= MaxSince THEN since ELSE since + 1
    /\ UNCHANGED <<CELESTIAL_BODIES, loaded, app>>

InterleavedNext == Render \/ Step \/ Yield

InterleavedSpec == UnitInit /\ [][InterleavedNext]_vars

\* ---- services/geminiService.ts: the retry loop ----------------------------

\* maxRetries = 3, the default the callers leave in place.
maxRetries == 3

\* What one request to the API can bring: a response with a text and with
\* generated images, or a rejection with an error message (as words).
Replies ==
    { [ok |-> TRUE, text |-> t, images |-> i, message |-> <<>>] :
        t \in {"{\"city\":\"Rabat\"}", "[]", "Sorry"}, i \in {<<>>, <<"/9j/4AAQ">>} } \cup
    { [ok |-> FALSE, text |-> "", images |-> <<>>, message |-> m] :
        m \in { <<"429", "Too", "Many", "Requests">>, <<"RESOURCE_EXHAUSTED">>,
                <<"Quota", "exceeded">>, <<"Failed", "to", "fetch">> } }

\* The values null and undefined.
Null == [type |-> "null"]
Undefined == [type |-> "undefined"]

\* JSON.parse(text): the value, or a SyntaxError.
JsonParse(text) ==
    CASE text = "{\"city\":\"Rabat\"}" -> [threw |-> FALSE, value |-> [type |-> "object", city |-> "Rabat"]]
      [] text = "[]" -> [threw |-> FALSE, value |-> [type |-> "array", length |-> 0]]
      [] text = "\"/9j/4AAQ\"" -> [threw |-> FALSE, value |-> [type |-> "string", imageBytes |-> "/9j/4AAQ"]]
      [] text = "null" -> [threw |-> FALSE, value |-> Null]
      [] OTHER -> [threw |-> TRUE, message |-> <<"Unexpected", "token">>]

\* A test that takes every error for a rate-limit error.
isRateLimitError_anyError(message) == TRUE

\* errorMessage = message.toLowerCase(); errorMessage.includes('429') ||
\* errorMessage.includes('resource_exhausted') || errorMessage.includes('quota')
isRateLimitError(message) ==
    LET toLowerCase(w) == CASE w = "RESOURCE_EXHAUSTED" -> "resource_exhausted"
                            [] w = "Quota" -> "quota"
                            [] w = "Too" -> "too"
                            [] w = "Many" -> "many"
                            [] w = "Requests" -> "requests"
                            [] w = "Failed" -> "failed"
                            [] w = "Unexpected" -> "unexpected"
                            [] OTHER -> w
    IN  \E n \in DOMAIN message : toLowerCase(message[n]) \in {"429", "resource_exhausted", "quota"}

\* The try block of the loop body, for the reply the request has brought.
TryBody(op, reply) ==
    IF ~reply.ok THEN [threw |-> TRUE, message |-> reply.message]
    ELSE IF op = "generateJson" THEN JsonParse(reply.text)
    ELSE IF Len(reply.images) > 0 THEN [threw |-> FALSE, value |-> [type |-> "string", imageBytes |-> reply.images[1]]]
    ELSE [threw |-> FALSE, value |-> Null]

\* An activation of one of the two functions is in `call`.
Generating == call.op \in {"generateJson", "generateCelestialBodyImage"}

Returned(frame, value) == [frame EXCEPT !.pc = "returned", !.result = value]

\* generateJson(prompt, schema, limit) or the fetch function of
\* generateCelestialBodyImage(bodyName, limit) is called: without an API key
\* it returns null at once, else let attempt = 0.
Generate ==
    /\ call = NoCall \/ (Generating /\ call.pc = "returned")
    /\ \E op \in {"generateJson", "generateCelestialBodyImage"}, key \in BOOLEAN, limit \in 0..maxRetries :
         LET frame == [op |-> op, pc |-> "loop", API_KEY |-> key, maxRetries |-> limit,
                       attempt |-> 0, replies |-> <<>>, result |-> Undefined]
         IN  call' = IF key THEN frame ELSE Returned(frame, Null)
    /\ UNCHANGED <<CELESTIAL_BODIES, loaded, first, since, app>>

\* while (attempt < maxRetries): the request is sent, or the loop is left and
\* null returned.
Attempt ==
    /\ Generating
    /\ call.pc = "loop"
    /\ call' = IF call.attempt < call.maxRetries THEN [call EXCEPT !.pc = "await"]
               ELSE Returned(call, Null)
    /\ UNCHANGED <<CELESTIAL_BODIES, loaded, first, since, app>>

\* The request settles: the try block returns its value, or the catch block
\* sleeps before the next attempt or returns null.
Settle ==
    /\ Generating
    /\ call.pc = "await"
    /\ \E reply \in Replies :
         LET tried == TryBody(call.op, reply)
             frame == [call EXCEPT !.replies = Append(@, reply)]
         IN  call' = IF ~tried.threw THEN Returned(frame, tried.value)
                     ELSE IF isRateLimitError(tried.message) /\ call.attempt < call.maxRetries - 1
                     THEN [frame EXCEPT !.pc = "sleep"]
                     ELSE Returned(frame, Null)
    /\ UNCHANGED <<CELESTIAL_BODIES, loaded, first, since, app>>

\* await sleep(delay) is over; attempt++.
Wake ==
    /\ Generating
    /\ call.pc = "sleep"
    /\ call' = [call EXCEPT !.pc = "loop", !.attempt = @ + 1]
    /\ UNCHANGED <<CELESTIAL_BODIES, loaded, first, since, app>>

GenerateStep == Attempt \/ Settle \/ Wake

GenerateNext == Generate \/ GenerateStep

\* Every request settles and every timer fires.
GenerateSpec == UnitInit /\ [][GenerateNext]_vars /\ WF_vars(GenerateStep)

\* ---- services/geminiService.ts: the session cache -------------------------

\* JSON.stringify(value).
JsonStringify(value) ==
    CASE value.type = "object" -> "{\"city\":\"Rabat\"}"
      [] value.type = "array" -> "[]"
      [] value.type = "string" -> "\"/9j/4AAQ\""
      [] OTHER -> "null"

\* A condition that lets every fetched item into the cache.
IsTruthy_always(item) == TRUE

\* if (newItem): null is falsy; objects, arrays and non-empty strings are not.
IsTruthy(item) == item # Null

\* The session storage holds nothing, or what another script of the origin
\* has left under a key; `returned` and `written` keep, for each key, the
\* latest non-null value a call has returned and has stored.
CacheInit ==
    /\ CELESTIAL_BODIES = [n \in DOMAIN CelestialBodiesLiteral |-> ConvertRate(CelestialBodiesLiteral[n])]
    /\ loaded = TRUE
    /\ call = NoCall
    /\ first = NoCall
    /\ since = 0
    /\ \E items \in [{"initial-33.97--6.85-fr-2026-11-02", "celestialImage-mars"} -> {<<>>, <<"{oops">>}] :
         app = [sessionStorage |-> items,
                returned |-> [k \in DOMAIN items |-> Undefined],
                written |-> [k \in DOMAIN items |-> Undefined]]

Caching == call.op = "getCachedOrFetch"

\* Lines 11-27: getItem; a hit returns the parsed item, an item that does not
\* parse is removed, and without a readable item fetchFn is invoked.
Lookup ==
    /\ call = NoCall \/ (Caching /\ call.pc = "returned")
    /\ \E key \in DOMAIN app.sessionStorage :
         LET cachedItem == app.sessionStorage[key]
             frame == [op |-> "getCachedOrFetch", key |-> key, cachedItem |-> cachedItem,
                       returned |-> app.returned[key], written |-> app.written[key],
                       fetched |-> FALSE, stored |-> FALSE, pc |-> "fetch", result |-> Undefined]
             hit == Len(cachedItem) > 0 /\ cachedItem[1] # ""
         IN  IF hit /\ ~JsonParse(cachedItem[1]).threw
             THEN /\ call' = Returned(frame, JsonParse(cachedItem[1]).value)
                  /\ app' = IF JsonParse(cachedItem[1]).value = Null THEN app
                            ELSE [app EXCEPT !.returned[key] = JsonParse(cachedItem[1]).value]
             ELSE /\ call' = frame
                  /\ app' = IF hit THEN [app EXCEPT !.sessionStorage[key] = <<>>] ELSE app
    /\ UNCHANGED <<CELESTIAL_BODIES, loaded, first, since>>

\* Lines 29-37: fetchFn settles with an item or with null; a truthy item is
\* stored, unless setItem throws because the storage is full; the item is
\* returned.
Fetch ==
    /\ Caching
    /\ call.pc = "fetch"
    /\ \E newItem \in {Null} \cup {TryBody(op, reply).value : op \in {"generateJson", "generateCelestialBodyImage"},
                                  reply \in {r \in Replies : r.ok /\ r.text # "Sorry"}},
          full \in BOOLEAN :
         LET stores == IsTruthy(newItem) /\ ~full
         IN  /\ call' = Returned([call EXCEPT !.fetched = TRUE, !.stored = stores], newItem)
             /\ app' = [app EXCEPT
                          !.sessionStorage[call.key] = IF stores THEN <<JsonStringify(newItem)>> ELSE @,
                          !.written[call.key] = IF stores THEN newItem ELSE @,
                          !.returned[call.key] = IF newItem # Null THEN newItem ELSE @]
    /\ UNCHANGED <<CELESTIAL_BODIES, loaded, first, since>>

CacheNext == Lookup \/ Fetch

CacheSpec == CacheInit /\ [][CacheNext]_vars

\* ---- App.tsx: the celestial-body modal ------------------------------------

MaxClicks == 3

\* The App component after mounting, as far as the modal goes: no body is
\* selected (the string "null" stands for null), nothing is loading and no
\* request is in flight; `clicks` counts the body clicks, up to MaxClicks.
ModalInit ==
    /\ CELESTIAL_BODIES = [n \in DOMAIN CelestialBodiesLiteral |-> ConvertRate(CelestialBodiesLiteral[n])]
    /\ loaded = TRUE
    /\ call = NoCall
    /\ first = NoCall
    /\ since = 0
    /\ app = [selectedBodyId |-> "null", modalDetails |-> Null, modalImage |-> Null,
              loading |-> [modal |-> FALSE, modalImage |-> FALSE],
              requests |-> {}, clicks |-> 0]

\* handleBodyClick(bodyId), lines 651-679: the state is reset for the body
\* and the two requests are sent. A body can be clicked while the modal is
\* closed (its backdrop covers the sky).
handleBodyClick ==
    /\ app.selectedBodyId = "null"
    /\ app.clicks < MaxClicks
    /\ \E bodyId \in {"mars", "jupiter"} :
         app' = [selectedBodyId |-> bodyId, modalDetails |-> Null, modalImage |-> Null,
                 loading |-> [modal |-> TRUE, modalImage |-> TRUE],
                 requests |-> app.requests \cup
                     {[kind |-> k, bodyId |-> bodyId, click |-> app.clicks + 1] : k \in {"details", "image"}},
                 clicks |-> app.clicks + 1]
    /\ UNCHANGED <<CELESTIAL_BODIES, loaded, call, first, since>>

\* onClose: () => setSelectedBodyId(null)
onClose ==
    /\ app.selectedBodyId # "null"
    /\ app' = [app EXCEPT !.selectedBodyId = "null"]
    /\ UNCHANGED <<CELESTIAL_BODIES, loaded, call, first, since>>

\* A promise of fetchCelestialBodyInfo or of generateCelestialBodyImage
\* settles, with data for its body or with null: lines 669-677.
Settled ==
    /\ \E request \in app.requests, data \in BOOLEAN :
         app' = IF request.kind = "details"
                THEN [app EXCEPT !.requests = @ \ {request},
                                 !.modalDetails = IF data THEN [type |-> "object", name |-> request.bodyId] ELSE Null,
                                 !.loading.modal = FALSE]
                ELSE [app EXCEPT !.requests = @ \ {request},
                                 !.modalImage = IF data THEN [type |-> "string", of |-> request.bodyId] ELSE @,
                                 !.loading.modalImage = FALSE]
    /\ UNCHANGED <<CELESTIAL_BODIES, loaded, call, first, since>>

ModalNext == handleBodyClick \/ onClose \/ Settled

ModalSpec == ModalInit /\ [][ModalNext]_vars

\* ---- App.tsx: QuizPage ----------------------------------------------------

\* The QuizPage component after mounting (lines 401-408); "null" stands for
\* null. `submitted` lists the questions answered in the quiz on screen.
QuizInit ==
    /\ CELESTIAL_BODIES = [n \in DOMAIN CelestialBodiesLiteral |-> ConvertRate(CelestialBodiesLiteral[n])]
    /\ loaded = TRUE
    /\ call = NoCall
    /\ first = NoCall
    /\ since = 0
    /\ app = [selectedTopic |-> "null", questions |-> Null, isLoading |-> FALSE, error |-> "null",
              currentQuestionIndex |-> 0, selectedAnswer |-> "null", isAnswered |-> FALSE,
              score |-> 0, submitted |-> <<>>]

\* What the component renders (lines 451-505): the loading or the error
\* page, the score, a question, or the list of topics.
Screen ==
    IF app.isLoading THEN "loading"
    ELSE IF app.error # "null" THEN "error"
    ELSE IF app.selectedTopic # "null" /\ app.questions # Null
    THEN (IF app.currentQuestionIndex >= Len(app.questions.items) THEN "score" ELSE "question")
    ELSE "topics"

\* handleStartQuiz(topic), lines 410-415: the request for the questions goes
\* out.
handleStartQuiz ==
    /\ Screen = "topics"
    /\ \E topic \in {"solar_system", "stars"} :
         app' = [app EXCEPT !.selectedTopic = topic, !.isLoading = TRUE, !.error = "null",
                            !.questions = Null]
    /\ UNCHANGED <<CELESTIAL_BODIES, loaded, call, first, since>>

\* The promise of fetchQuizQuestions settles (lines 416-429) with a list of
\* questions (it may be empty, and a correct answer may be no option) or
\* with null.
QuizLoaded ==
    /\ app.isLoading
    /\ \E data \in { Null,
                    [type |-> "array", items |-> <<>>],
                    [type |-> "array", items |-> << [options |-> <<"Mars", "Venus">>, correctAnswer |-> "Mars"],
                                                    [options |-> <<"8", "9">>, correctAnswer |-> "8"],
                                                    [options |-> <<"Io", "Titan", "Moon">>, correctAnswer |-> "Titan"] >>],
                    [type |-> "array", items |-> << [options |-> <<"Sirius", "Vega">>, correctAnswer |-> "Polaris"] >>] } :
         app' = IF data # Null
                THEN [app EXCEPT !.questions = data, !.currentQuestionIndex = 0, !.score = 0,
                                 !.selectedAnswer = "null", !.isAnswered = FALSE,
                                 !.isLoading = FALSE, !.submitted = <<>>]
                ELSE [app EXCEPT !.error = "error", !.isLoading = FALSE]
    /\ UNCHANGED <<CELESTIAL_BODIES, loaded, call, first, since>>

\* onClick={() => !isAnswered && setSelectedAnswer(option)}
selectAnswer ==
    /\ Screen = "question"
    /\ ~app.isAnswered
    /\ \E n \in DOMAIN app.questions.items[app.currentQuestionIndex + 1].options :
         app' = [app EXCEPT !.selectedAnswer = app.questions.items[app.currentQuestionIndex + 1].options[n]]
    /\ UNCHANGED <<CELESTIAL_BODIES, loaded, call, first, since>>

\* A handler that leaves the question open after an answer.
handleSubmitAnswer_staysOpen ==
    /\ Screen = "question"
    /\ ~app.isAnswered
    /\ app.selectedAnswer # "null"
    /\ app' = [app EXCEPT !.score = IF app.selectedAnswer = app.questions.items[app.currentQuestionIndex + 1].correctAnswer
                                    THEN @ + 1 ELSE @,
                          !.submitted = IF Len(@) < 4 THEN Append(@, app.currentQuestionIndex) ELSE @]
    /\ UNCHANGED <<CELESTIAL_BODIES, loaded, call, first, since>>

\* handleSubmitAnswer, lines 431-437; its button is rendered while the
\* question is not answered.
handleSubmitAnswer ==
    /\ Screen = "question"
    /\ ~app.isAnswered
    /\ app.selectedAnswer # "null" /\ app.questions # Null
    /\ app' = [app EXCEPT !.isAnswered = TRUE,
                          !.score = IF app.selectedAnswer = app.questions.items[app.currentQuestionIndex + 1].correctAnswer
                                    THEN @ + 1 ELSE @,
                          !.submitted = Append(@, app.currentQuestionIndex)]
    /\ UNCHANGED <<CELESTIAL_BODIES, loaded, call, first, since>>

\* handleNextQuestion, lines 439-443; its button is rendered once the
\* question is answered.
handleNextQuestion ==
    /\ Screen = "question"
    /\ app.isAnswered
    /\ app' = [app EXCEPT !.isAnswered = FALSE, !.selectedAnswer = "null",
                          !.currentQuestionIndex = @ + 1]
    /\ UNCHANGED <<CELESTIAL_BODIES, loaded, call, first, since>>

\* resetQuiz, lines 445-448: the play-again button of the score page.
resetQuiz ==
    /\ Screen = "score"
    /\ app' = [app EXCEPT !.selectedTopic = "null", !.questions = Null]
    /\ UNCHANGED <<CELESTIAL_BODIES, loaded, call, first, since>>

QuizNext ==
    \/ handleStartQuiz
    \/ QuizLoaded
    \/ selectAnswer
    \/ handleSubmitAnswer
    \/ handleNextQuestion
    \/ resetQuiz

QuizSpec == QuizInit /\ [][QuizNext]_vars

\* ---- App.tsx: dragging the sky ---------------------------------------------

\* App and ObservatoryView after mounting: skyRotation 0 (line 571), in
\* hundredths of a degree; no drag is going on (lines 264-265).
DragInit ==
    /\ CELESTIAL_BODIES = [n \in DOMAIN CelestialBodiesLiteral |-> ConvertRate(CelestialBodiesLiteral[n])]
    /\ loaded = TRUE
    /\ call = NoCall
    /\ first = NoCall
    /\ since = 0
    /\ app = [skyRotation |-> 0, isDragging |-> FALSE, lastMouseX |-> 0]

\* The clientX of a mouse or touch event, in pixels of a viewport 1920 wide.
ClientX == {0, 3, 400, 960, 1000, 1920}

\* handleMouseDown and handleTouchStart, lines 270 and 273.
handleMouseDown ==
    /\ \E clientX \in ClientX :
         app' = [app EXCEPT !.isDragging = TRUE, !.lastMouseX = clientX]
    /\ UNCHANGED <<CELESTIAL_BODIES, loaded, call, first, since>>

\* handleMouseMove and handleTouchMove, lines 271 and 274:
\* setSkyRotation(prev => (prev + dx * 0.4 + 360) % 360)
handleMouseMove ==
    /\ app.isDragging
    /\ \E clientX \in ClientX :
         app' = [app EXCEPT !.skyRotation = JsMod(@ + (clientX - app.lastMouseX) * 40 + 36000, 36000),
                            !.lastMouseX = clientX]
    /\ UNCHANGED <<CELESTIAL_BODIES, loaded, call, first, since>>

\* handleMouseUpOrLeave and handleTouchEnd, lines 272 and 275.
handleMouseUpOrLeave ==
    /\ app.isDragging
    /\ app' = [app EXCEPT !.isDragging = FALSE]
    /\ UNCHANGED <<CELESTIAL_BODIES, loaded, call, first, since>>

DragNext == handleMouseDown \/ handleMouseMove \/ handleMouseUpOrLeave

DragSpec == DragInit /\ [][DragNext]_vars

\* ---- App.tsx: the simulated time -------------------------------------------

MaxFrames == 4

\* new Date(): what the wall clock shows when it is read.
WallClock ==
    { [day |-> 20759, ms |-> 70000000, tz |-> 0 - 60],     \* 2026-11-02T19:26:40Z, UTC+1
      [day |-> 20759, ms |-> 86396000, tz |-> 0],          \* 2026-11-02T23:59:56Z
      [day |-> 20760, ms |-> 1000, tz |-> 300] }           \* 2026-11-03T00:00:01Z, UTC-5

\* new Date(date.getTime() + ms)
AddMs(date, ms) ==
    [day |-> date.day + (date.ms + ms) \div MsPerDay, ms |-> (date.ms + ms) % MsPerDay, tz |-> date.tz]

\* newDate.setHours(Math.floor(value / 60), value % 60): the hours and the
\* minutes of the local time are set, its seconds and milliseconds kept.
SetHours(date, value) ==
    LET local == AddMs(date, 0 - date.tz * 60000)
        set == [local EXCEPT !.ms = (value \div 60) * 3600000 + (value % 60) * 60000 + (local.ms % 60000)]
    IN  AddMs(set, date.tz * 60000)

\* The App component after mounting (lines 561, 569, 570); `frames` counts
\* the animation frames, up to MaxFrames, and `handler` names the handler
\* that ran last.
TimeInit ==
    /\ CELESTIAL_BODIES = [n \in DOMAIN CelestialBodiesLiteral |-> ConvertRate(CelestialBodiesLiteral[n])]
    /\ loaded = TRUE
    /\ call = NoCall
    /\ first = NoCall
    /\ since = 0
    /\ \E now \in WallClock :
         app = [currentPage |-> "observatory", simTime |-> now, isPlaying |-> TRUE,
                frames |-> 0, handler |-> "mount"]

\* A frame callback that never looks at the page.
animate_anyPage ==
    /\ app.frames < MaxFrames
    /\ app' = [app EXCEPT !.simTime = IF app.isPlaying THEN AddMs(@, 2500) ELSE @,
                          !.frames = @ + 1, !.handler = "animate"]
    /\ UNCHANGED <<CELESTIAL_BODIES, loaded, call, first, since>>

\* animate, lines 637-642: the callback of requestAnimationFrame.
\* 50000 * 0.05 is 2500.
animate ==
    /\ app.frames < MaxFrames
    /\ app' = [app EXCEPT !.simTime = IF app.isPlaying /\ app.currentPage = "observatory"
                                      THEN AddMs(@, 2500) ELSE @,
                          !.frames = @ + 1, !.handler = "animate"]
    /\ UNCHANGED <<CELESTIAL_BODIES, loaded, call, first, since>>

\* The controls of TimeController, rendered on the observatory page: the
\* play/pause button (line 95), the now button (line 98) and the slider
\* (handleTimeChange, lines 55-59).
TimeControl ==
    /\ app.currentPage = "observatory"
    /\ \/ app' = [app EXCEPT !.isPlaying = ~@, !.handler = "setIsPlaying"]
       \/ \E now \in WallClock : app' = [app EXCEPT !.simTime = now, !.handler = "now"]
       \/ \E value \in {0, 719, 1439} :
            app' = [app EXCEPT !.simTime = SetHours(@, value), !.handler = "handleTimeChange"]
    /\ UNCHANGED <<CELESTIAL_BODIES, loaded, call, first, since>>

\* Navigation: setCurrentPage(item.page), line 545.
setCurrentPage ==
    /\ \E page \in {"observatory", "education", "quiz"} :
         app' = [app EXCEPT !.currentPage = page, !.handler = "setCurrentPage"]
    /\ UNCHANGED <<CELESTIAL_BODIES, loaded, call, first, since>>

TimeNext == animate \/ TimeControl \/ setCurrentPage

TimeSpec == TimeInit /\ [][TimeNext]_vars

\* ---- App.tsx: manual coordinates ------------------------------------------

\* parseFloat(text), in hundredths: the number the longest numeric prefix
\* denotes, NaN without one.
parseFloat(text) ==
    CASE text = "48.85" -> 4885
      [] text = "-33.87" -> 0 - 3387
      [] text = "90" -> 9000
      [] text = "-90" -> 0 - 9000
      [] text = "90.01" -> 9001
      [] text = "180" -> 18000
      [] text = "-180" -> 0 - 18000
      [] text = "-180.5" -> 0 - 18050
      [] text = "1e3" -> 100000
      [] text = "12abc" -> 1200
      [] text = "0" -> 0
      [] OTHER -> NaN

\* InitialView is rendered while the coordinates are null (App.tsx 562 and
\* 690-692); nothing has been submitted.
FormInit ==
    /\ CELESTIAL_BODIES = [n \in DOMAIN CelestialBodiesLiteral |-> ConvertRate(CelestialBodiesLiteral[n])]
    /\ loaded = TRUE
    /\ call = NoCall
    /\ first = NoCall
    /\ since = 0
    /\ app = [coordinates |-> Null, latitude |-> "", longitude |-> "", alerted |-> FALSE]

\* A handler that tests the latitude alone.
handleManualSubmit_latitudeOnly ==
    /\ app.coordinates = Null
    /\ \E latitude \in {"48.85", "-90", "90.01", "abc", ""}, longitude \in {"-180", "-180.5", "abc", "2.35"} :
         LET lat == parseFloat(latitude)
             lon == parseFloat(longitude)
         IN  app' = IF lat # NaN /\ Ge(lat, 0 - 9000) /\ Ge(9000, lat)
                    THEN [coordinates |-> [latitude |-> lat, longitude |-> lon],
                          latitude |-> latitude, longitude |-> longitude, alerted |-> FALSE]
                    ELSE [coordinates |-> app.coordinates,
                          latitude |-> latitude, longitude |-> longitude, alerted |-> TRUE]
    /\ UNCHANGED <<CELESTIAL_BODIES, loaded, call, first, since>>

\* handleManualSubmit, lines 201-211, for the texts of the two fields of the
\* form; onLocationSet is setCoordinates.
handleManualSubmit ==
    /\ app.coordinates = Null
    /\ \E latitude \in {"48.85", "-33.87", "90", "-90", "90.01", "1e3", "12abc", "0", "abc", ""},
          longitude \in {"48.85", "180", "-180", "-180.5", "90.01", "1e3", "12abc", "0", "abc", "", "-"} :
         LET lat == parseFloat(latitude)
             lon == parseFloat(longitude)
         IN  app' = IF lat # NaN /\ lon # NaN /\ Ge(lat, 0 - 9000) /\ Ge(9000, lat)
                       /\ Ge(lon, 0 - 18000) /\ Ge(18000, lon)
                    THEN [coordinates |-> [latitude |-> lat, longitude |-> lon],
                          latitude |-> latitude, longitude |-> longitude, alerted |-> FALSE]
                    ELSE [coordinates |-> app.coordinates,
                          latitude |-> latitude, longitude |-> longitude, alerted |-> TRUE]
    /\ UNCHANGED <<CELESTIAL_BODIES, loaded, call, first, since>>

FormSpec == FormInit /\ [][handleManualSubmit]_vars

\* ==== Properties ===========================================================

Called == call # NoCall
PlanetCalled == Called /\ call.eq.branch = "planet"

\* The kind each catalog id names.
SunIds == {"sun"}
MoonIds == {"moon"}
PlanetIds == {"mercury", "venus", "mars", "jupiter", "saturn"}
CatalogEntries == {CELESTIAL_BODIES[n] : n \in DOMAIN CELESTIAL_BODIES} \cup STARS

\* The stages after the dispatch, applied to equatorial coordinates (ra, dec).
Horizontal(c, ra, dec) ==
    raDecToAzAlt(ra, dec, getLocalSiderealTime(c.date, c.coords), c.coords.latitude)

Projected(c, azimuth, altitude) ==
    projectToScreen(azimuth, altitude, c.screenSize, c.rotation)

\* ---- C1 -------------------------------------------------------------------
\* C1: calculateObjectPosition takes the equatorial coordinates from exactly
\* one source, chosen in this order: a record with ra and dec uses its own
\* ra/dec unchanged (whatever its id); otherwise a record of type 'planet'
\* uses getPlanetPosition on its own elements; otherwise id 'sun' uses
\* getSunPosition and id 'moon' getMoonPosition.  Every entry of
\* CELESTIAL_BODIES and STARS is routed to the variant its kind names.
DispatchByKind ==
    Called =>
        LET o == call.obj
            isStar == In("ra", o) /\ In("dec", o)
            isPlanet == In("type", o) /\ o.type = "planet"
            source == [ra |-> call.eq.ra, dec |-> call.eq.dec]
        IN  /\ isStar => call.eq.branch = "star" /\ source = [ra |-> o.ra, dec |-> o.dec]
            /\ (~isStar /\ isPlanet) =>
                   call.eq.branch = "planet" /\ source = getPlanetPosition(o, call.date)
            /\ (~isStar /\ ~isPlanet /\ o.id = "sun") =>
                   call.eq.branch = "sun" /\ source = getSunPosition(call.date)
            /\ (~isStar /\ ~isPlanet /\ o.id = "moon") =>
                   call.eq.branch = "moon" /\ source = getMoonPosition(call.date)
            /\ o \in CatalogEntries =>
                   call.eq.branch = (IF o \in STARS THEN "star"
                                     ELSE IF o.id \in PlanetIds THEN "planet"
                                     ELSE IF o.id \in SunIds THEN "sun"
                                     ELSE IF o.id \in MoonIds THEN "moon"
                                     ELSE "fallback")

\* A record with ra and dec whose id is 'sun' has been routed as a star, and
\* its coordinates differ from the Sun's.
DispatchWitness ==
    /\ Called
    /\ call.obj.id = "sun" /\ In("ra", call.obj)
    /\ call.eq.branch = "star"
    /\ call.eq.ra # getSunPosition(call.date).ra

\* ---- C2 -------------------------------------------------------------------
\* C2: for a descriptor that matches no variant (no ra/dec, type not 'planet',
\* id neither 'sun' nor 'moon') calculateObjectPosition uses RA = 0 h and
\* Dec = 0 deg and returns the ScreenPosition computed from them.
FallbackOrigin ==
    (/\ Called
     /\ ~(In("ra", call.obj) /\ In("dec", call.obj))
     /\ ~(In("type", call.obj) /\ call.obj.type = "planet")
     /\ call.obj.id \notin {"sun", "moon"}) =>
        LET hor == Horizontal(call, 0, 0)
            pt == Projected(call, hor.azimuth, hor.altitude)
        IN  /\ call.eq.ra = 0 /\ call.eq.dec = 0
            /\ DOMAIN call.result = {"x", "y", "azimuth", "altitude", "visible"}
            /\ call.result.azimuth = hor.azimuth /\ call.result.altitude = hor.altitude
            /\ call.result.x = pt.x /\ call.result.y = pt.y

\* An unknown body has been placed, above the horizon, with numbers in every
\* field.
FallbackWitness ==
    /\ Called
    /\ call.obj = [id |-> "pluto"]
    /\ call.eq.branch = "fallback"
    /\ IsNum(call.result.x) /\ IsNum(call.result.y) /\ IsNum(call.result.azimuth)
    /\ call.result.visible

\* ---- C3 -------------------------------------------------------------------
\* C3: in every returned ScreenPosition, visible is true exactly when the
\* returned altitude is a number >= 0: altitude 0 is visible, a negative
\* altitude is not.
VisibleIffAboveHorizon ==
    Called =>
        (call.result.visible <=> (IsNum(call.result.altitude) /\ call.result.altitude >= 0))

\* A body exactly on the horizon has been returned as visible.
OnHorizonWitness ==
    Called /\ call.result.altitude = 0 /\ call.result.visible

\* ---- C4 -------------------------------------------------------------------
\* C4: the returned azimuth and altitude are the output of the horizontal
\* transform for the body's equatorial coordinates, the local sidereal time of
\* (date, longitude) and the observer latitude, and the returned (x, y) is
\* projectToScreen(returned azimuth, returned altitude, screenSize, rotation).
FieldsConsistent ==
    Called =>
        LET hor == Horizontal(call, call.eq.ra, call.eq.dec)
            pt == Projected(call, call.result.azimuth, call.result.altitude)
        IN  /\ call.result.azimuth = hor.azimuth
            /\ call.result.altitude = hor.altitude
            /\ call.result.x = pt.x
            /\ call.result.y = pt.y

\* A planet below the horizon has been placed outside the horizon circle, at
\* another point than the one altitude 0 would give.
BelowHorizonWitness ==
    /\ PlanetCalled
    /\ IsNum(call.result.x) /\ IsNum(call.result.y)
    /\ call.result.altitude < 0 - 1000
    /\ <<call.result.x, call.result.y>> #
           <<Projected(call, call.result.azimuth, 0).x, Projected(call, call.result.azimuth, 0).y>>

ElementFields ==
    {"semimajorAxis", "eccentricity", "inclination",
     "meanLongitude", "longitudeOfPerihelion", "longitudeOfAscendingNode"}

Planets(bodies) == {n \in DOMAIN bodies : In("type", bodies[n]) /\ bodies[n].type = "planet"}

\* C6 as stated: once the catalog is defined no operation, module
\* initialisation included, changes the base value or the rate of any of the
\* six elements of any planet.
ElementsNeverChange ==
    [][\A n \in Planets(CELESTIAL_BODIES) : \A f \in ElementFields :
           CELESTIAL_BODIES'[n][f] = CELESTIAL_BODIES[n][f]]_vars

\* C6, amended: module initialisation divides the meanLongitude rate of every
\* planet by 36525, once, and changes nothing else; after it no operation
\* (no call of calculateObjectPosition / getPlanetPosition in particular)
\* changes the base value or the rate of any element of any planet.
ElementsStaticAfterInit ==
    [][\A n \in Planets(CELESTIAL_BODIES) : \A f \in ElementFields :
           /\ CELESTIAL_BODIES'[n][f][1] = CELESTIAL_BODIES[n][f][1]
           /\ (loaded \/ f # "meanLongitude") =>
                  CELESTIAL_BODIES'[n][f][2] = CELESTIAL_BODIES[n][f][2]
           /\ (~loaded /\ loaded' /\ f = "meanLongitude") =>
                  CELESTIAL_BODIES'[n][f][2] = DivInt(CELESTIAL_BODIES[n][f][2], 36525)]_vars

\* The module has been initialised, Jupiter's rate is the daily one
\* (0.0831 deg/day) and a planet's position has been computed.
ConvertedRateWitness ==
    /\ loaded
    /\ PlanetCalled
    /\ CELESTIAL_BODIES[6].id = "jupiter"
    /\ CELESTIAL_BODIES[6].meanLongitude[2] = 831
    /\ CELESTIAL_BODIES[6].meanLongitude[2] # CelestialBodiesLiteral[6].meanLongitude[2]

\* ---- C7 -------------------------------------------------------------------
\* C7 as stated: the right ascension returned by getSunPosition,
\* getMoonPosition and getPlanetPosition is always in [0, 24) hours and the
\* declination in [-90, 90] degrees, never NaN, for every timestamp and every
\* planet of the catalog.
EphemerisInRange ==
    (Called /\ call.eq.branch \in {"sun", "moon", "planet"}) =>
        /\ IsNum(call.eq.ra) /\ IsNum(call.eq.dec)
        /\ 0 <= call.eq.ra /\ call.eq.ra < 2400
        /\ 0 - 9000 <= call.eq.dec /\ call.eq.dec <= 9000

\* ---- C8 -------------------------------------------------------------------
\* C8 as stated: in getPlanetPosition the mean anomaly M is in [0, 2*pi) for
\* every timestamp (dates before J2000.0 included) and every planet of the
\* catalog.
MeanAnomalyNormalized ==
    PlanetCalled => (0 <= call.orbit.M /\ call.orbit.M < TwoPi)

\* ---- C9 -------------------------------------------------------------------
\* n applications of the update E <- M + e * sin(E), written out.
Updated(M, e, E, n) ==
    LET u1 == KeplerUpdate(M, e, E)
        u2 == KeplerUpdate(M, e, u1)
        u3 == KeplerUpdate(M, e, u2)
        u4 == KeplerUpdate(M, e, u3)
        u5 == KeplerUpdate(M, e, u4)
        u6 == KeplerUpdate(M, e, u5)
    IN  <<u1, u2, u3, u4, u5, u6>>[n]

\* C9: the planet's Kepler solve applies the update E <- M + e*sin(E) exactly
\* 6 times starting from E = M, whatever M and e are.
PlanetKeplerSixUpdates ==
    PlanetCalled =>
        /\ call.orbit.updates = 6
        /\ call.orbit.E = Updated(call.orbit.M, call.orbit.e, call.orbit.M, 6)

\* A planet has been solved whose iteration had already stopped moving after
\* three updates: a convergence check would have left the loop early.
ConvergedEarlyWitness ==
    /\ PlanetCalled
    /\ call.orbit.e > 0
    /\ Updated(call.orbit.M, call.orbit.e, call.orbit.M, 4) =
           Updated(call.orbit.M, call.orbit.e, call.orbit.M, 3)
    /\ call.orbit.updates = 6

\* ---- C10 ------------------------------------------------------------------
\* C10 as stated: Earth's Kepler solve applies the update
\* E <- M_earth + e_earth*sin(E) exactly 5 times starting from E = M_earth.
EarthKeplerFiveUpdates ==
    PlanetCalled =>
        /\ call.orbit.updatesEarth = 5
        /\ call.orbit.E_earth =
               Updated(call.orbit.M_earth, call.orbit.e_earth, call.orbit.M_earth, 5)

\* C10, amended: Earth's Kepler solve applies the update exactly 6 times
\* starting from E = M_earth (once in the initialiser of E_earth, then in 5
\* loop iterations), with M_earth and e_earth computed from the date alone by
\* constants of the function, whatever the planet's element table holds.
EarthKeplerSixUpdates ==
    PlanetCalled =>
        /\ call.orbit.updatesEarth = 6
        /\ call.orbit.E_earth =
               Updated(call.orbit.M_earth, call.orbit.e_earth, call.orbit.M_earth, 6)
        /\ call.orbit.M_earth = toRad(JsMod(Add(35753, MulRate(9856, EpochDays(call.date))), 36000))
        /\ call.orbit.e_earth = Sub(17, DivInt(MulRate(42037, EpochDays(call.date)), RateScale))

\* Earth has been solved on a date where the sixth update still moves E.
EarthSixthUpdateWitness ==
    /\ PlanetCalled
    /\ IsNum(call.orbit.E_earth)
    /\ call.orbit.E_earth #
           Updated(call.orbit.M_earth, call.orbit.e_earth, call.orbit.M_earth, 5)

\* ---- C11 ------------------------------------------------------------------
PlanetApplication == call # NoCall /\ call.op = "getPlanetPosition"

\* C11: when the eccentricity is 0, the Kepler iteration leaves E equal to M
\* exactly after every iteration, so the solved eccentric anomaly equals the
\* mean anomaly.
CircularKeepsMeanAnomaly ==
    (PlanetApplication /\ call.orbit.e = 0 /\ IsNum(call.orbit.M)) =>
        /\ \A n \in 0..6 : call.trace[n] = call.orbit.M
        /\ call.orbit.E = call.orbit.M

\* A circular orbit has been solved at a mean anomaly whose sine is at least
\* one half: any eccentricity at all would have moved E away from M.
CircularOrbitWitness ==
    /\ PlanetApplication
    /\ call.orbit.e = 0
    /\ IsNum(call.orbit.M)
    /\ Abs(Sin(call.orbit.M)) >= 500
    /\ call.orbit.E = call.orbit.M

\* ---- C12 ------------------------------------------------------------------
Activated == call # NoCall /\ call.op = "activation"

\* C12: every operation of the core terminates after a bounded number of
\* steps for every input: the only loops are the two Kepler loops with fixed
\* counts (6 and 5), no loop depends on an input value, and
\* calculateObjectPosition always returns (with the value the function has).
AlwaysReturns ==
    /\ [](Activated => call.steps <= 1 + 6 + 1 + 5 + 1 + 1 + 1)
    /\ []((At("returned") /\ IsPlanet(call.obj)) => call.k = 6 /\ call.kEarth = 5)
    /\ []((At("returned") /\ IsPlanet(call.obj)) =>
            /\ call.E = SolvePlanetKepler(call.M, call.e).E
            /\ call.E_earth = SolveEarthKepler(call.M_earth, call.e_earth).E)
    /\ [](At("returned") => call.result = Memo(call).result)
    /\ ((Activated /\ ~At("returned")) ~> At("returned"))

\* A planet call has returned after both loops, on a date where the result is
\* NaN: the loops ran their fixed counts on values that are no numbers.
PlanetReturnedWitness ==
    /\ At("returned")
    /\ IsPlanet(call.obj)
    /\ call.steps = 1 + 6 + 1 + 5 + 1 + 1 + 1
    /\ ~IsNum(call.result.x)

\* ---- C13 ------------------------------------------------------------------
JulianDayApplication == call # NoCall /\ call.op = "getJulianDay"

\* Hundredths of a day in a time of the day given in milliseconds, and in a
\* UTC offset given in minutes (rounded to the nearest hundredth).
DayFraction(ms) == ms \div 864000
OffsetFraction(tz) == Sgn(tz) * ((Abs(tz) * 100 + 720) \div 1440)

\* The J2000.0 reference instant, 946728000000 ms = 10957 days and 12 hours.
IsNoonUTC(date) == date.ms = 43200000 /\ date.tz = 0

\* C13: the epoch used by every ephemeris and by the sidereal clock equals
\* milliseconds_since_unix_epoch/86400000 - utcOffsetMinutes/1440 + 2440587.5
\* - 2451545.0; for 2000-01-01T12:00:00 UTC with UTC offset 0 the epoch is
\* exactly 0, and each additional 86400000 ms adds exactly 1.
EpochFormula ==
    JulianDayApplication =>
        /\ call.d = call.date.day * 100 + DayFraction(call.date.ms)
                      - OffsetFraction(call.date.tz) + 244058750 - 245154500
        /\ IsNoonUTC(call.date) => call.d = (call.date.day - 10957) * 100
        /\ \A other \in EpochDates :
             getJulianDay(other) = call.jd =>
                 /\ getSunPosition(other) = getSunPosition(call.date)
                 /\ getMoonPosition(other) = getMoonPosition(call.date)
                 /\ \A planet \in LoadedPlanets :
                      PlanetOrbit(planet, other).d = call.d
                 /\ \A coords \in Observers :
                      getLocalSiderealTime(other, coords) = getLocalSiderealTime(call.date, coords)

\* The Julian Day of the reference instant has been taken on a clock one
\* hour behind UTC: the offset term is what brings the epoch to 0.
EpochOffsetWitness ==
    /\ JulianDayApplication
    /\ call.date.tz = 60
    /\ call.d = 0

\* ---- C14 ------------------------------------------------------------------
SiderealTimeApplication == call # NoCall /\ call.op = "getLocalSiderealTime"

TransformApplication == call # NoCall /\ call.op = "raDecToAzAlt"

\* HA = (LST - RA) * 15 degrees, in radians.
HourAngle(ra, lst) == toRad(MulInt(Sub(lst, ra), 15))

\* A: the arccosine of the azimuth cosine, in degrees, before the quadrant
\* correction.
ArccosineDegrees(ra, dec, lst, lat) ==
    LET sinAlt == Add(Mul(Sin(toRad(dec)), Sin(toRad(lat))),
                      Mul(Mul(Cos(toRad(dec)), Cos(toRad(lat))), Cos(HourAngle(ra, lst))))
        altitude == toDeg(Asin(sinAlt))
    IN  toDeg(Acos(Div(Sub(Sin(toRad(dec)), Mul(Sin(toRad(lat)), sinAlt)),
                       Mul(Cos(toRad(lat)), Cos(toRad(altitude))))))

\* C15: in raDecToAzAlt, with HA = (LST - RA) * 15 degrees and A the
\* arccosine result in degrees, the returned azimuth is 360 - A when
\* sin(HA) > 0 and is A itself when sin(HA) <= 0 (sin(HA) = 0 included).
AzimuthQuadrant ==
    TransformApplication =>
        LET sinHA == Sin(HourAngle(call.ra, call.lst))
            A == ArccosineDegrees(call.ra, call.dec, call.lst, call.lat)
        IN  /\ sinHA > 0 => call.hor.azimuth = Sub(36000, A)
            /\ sinHA <= 0 => call.hor.azimuth = A

\* A body on the meridian north of the zenith (sin(HA) = 0, A below 90) has
\* been transformed: its azimuth is A, where the reflection would give more
\* than 270.
MeridianNorthWitness ==
    /\ TransformApplication
    /\ Sin(HourAngle(call.ra, call.lst)) = 0
    /\ IsNum(call.hor.azimuth)
    /\ call.hor.azimuth < 9000

\* ---- C16 ------------------------------------------------------------------
\* C16: every horizon coordinate pair returned by raDecToAzAlt has azimuth in
\* [0, 360) (360 itself excluded) and altitude in [-90, 90], for every ra,
\* dec in [-90, 90], lst and latitude in [-90, 90].
HorizonInRange ==
    TransformApplication =>
        /\ 0 <= call.hor.azimuth /\ call.hor.azimuth < 36000
        /\ 0 - 9000 <= call.hor.altitude /\ call.hor.altitude <= 9000

\* ---- C17 ------------------------------------------------------------------
PositionApplication == call # NoCall /\ call.op = "calculateObjectPosition"

ValidDate(date) == IsNum(date.day) /\ IsNum(date.tz)
ValidLatitude(coords) == 0 - 9000 <= coords.latitude /\ coords.latitude <= 9000

\* C17: when the azimuth denominator cos(lat)*cos(alt) is zero or near zero
\* (object at the observer's zenith or nadir, or observer at a pole), the
\* division in raDecToAzAlt is guarded, so the azimuth is a number and no
\* NaN reaches projectToScreen or the returned x, y.
AzimuthDivisionGuarded ==
    (PositionApplication /\ ValidDate(call.date) /\ ValidLatitude(call.coords)
        /\ IsNum(call.eq.ra) /\ IsNum(call.eq.dec)) =>
        /\ IsNum(call.result.azimuth)
        /\ IsNum(call.result.x)
        /\ IsNum(call.result.y)

\* ---- C18 ------------------------------------------------------------------
\* The outcome the contract asks for on invalid input.
ValidationError == [error |-> "validation"]

\* C18: an out-of-range input to the core (observer latitude outside
\* [-90, 90], or a malformed/invalid timestamp) makes
\* calculateObjectPosition fail immediately with a validation error; it
\* never returns a ScreenPosition for such input.
InvalidInputRejected ==
    (PositionApplication /\ (~ValidDate(call.date) \/ ~ValidLatitude(call.coords))) =>
        call.result = ValidationError

\* ---- C19 ------------------------------------------------------------------
ProjectionApplication == call # NoCall /\ call.op = "projectToScreen"

\* C19: projectToScreen maps altitude 90 to the exact viewport center
\* (width/2, height/2) for every azimuth, every rotation and every viewport
\* size.
ZenithAtCenter ==
    (ProjectionApplication /\ call.altitude = 9000) =>
        call.pt = [x |-> DivInt(call.size.width, 2), y |-> DivInt(call.size.height, 2)]

\* The zenith has been projected for an azimuth and a rotation that point
\* away from both axes, in a viewport whose center is no whole pixel.
ZenithWitness ==
    /\ ProjectionApplication
    /\ call.altitude = 9000
    /\ call.azimuth = 13370
    /\ call.rotation = 0 - 4500
    /\ call.size.width = 80100
    /\ call.pt = [x |-> 40050, y |-> 30050]

\* ---- C20 ------------------------------------------------------------------
\* The whole-number square root.
RootOf(v) ==
    LET P(y) == (y + 1) * (y + 1) > v
    IN  Least(P, 0, 46000)

\* The distance of a projected point from the viewport center, in tenths of
\* a pixel.
CenterDistance(pt, size) ==
    LET dx == (pt.x - DivInt(size.width, 2)) \div 10
        dy == (pt.y - DivInt(size.height, 2)) \div 10
    IN  RootOf(dx * dx + dy * dy)

\* radius = 0.95 * min(width, height) / 2, in tenths of a pixel.
HorizonRadius(size) == (95 * JsMin(size.width, size.height)) \div 2000

\* The rounding of the fixed-point sine and cosine, for a distance r.
Rounding(r) == r \div 250 + 3

\* The distance is (1 - altitude/90) * radius; it equals radius at altitude
\* 0, is below it above the horizon and beyond it below the horizon, and
\* every higher altitude lies strictly nearer the center.
RadialLaw(c) ==
    LET dist == CenterDistance(c.pt, c.size)
        radius == HorizonRadius(c.size)
        law == ((9000 - c.altitude) * radius) \div 9000
        higher == {a[2] : a \in {b \in ProjectionInputs : b[2] > c.altitude}}
    IN  /\ Abs(dist - law) <= Rounding(law)
        /\ c.altitude = 0 => Abs(dist - radius) <= Rounding(radius)
        /\ c.altitude > 0 => dist < radius
        /\ c.altitude < 0 => dist > radius
        /\ \A alt \in higher :
             CenterDistance(projectToScreen(c.azimuth, alt, c.size, c.rotation), c.size) < dist

\* C20 as stated: the distance of projectToScreen's result from the viewport
\* center is (1 - altitude/90) * radius with radius = 0.95 * min(width,
\* height)/2: it equals radius at altitude 0, is strictly smaller than radius
\* for 0 < altitude <= 90, is strictly greater than radius for altitude < 0,
\* and strictly decreases as altitude increases.
RadialDistanceStrict ==
    ProjectionApplication => RadialLaw(call)

\* C20, amended: the same, for every viewport of positive width and height;
\* in a viewport whose width or height is 0 the radius is 0 and every
\* altitude is projected onto the center.
RadialDistancePositiveViewport ==
    ProjectionApplication =>
        IF call.size.width > 0 /\ call.size.height > 0
        THEN RadialLaw(call)
        ELSE CenterDistance(call.pt, call.size) = 0

\* A body below the horizon has been projected in a portrait viewport,
\* turned by the rotation: it lies beyond the horizon circle.
BeyondHorizonWitness ==
    /\ ProjectionApplication
    /\ call.altitude = 0 - 4500
    /\ call.size = [width |-> 60000, height |-> 90000]
    /\ call.rotation = 9000
    /\ call.azimuth = 13370
    /\ CenterDistance(call.pt, call.size) > HorizonRadius(call.size) + 1000

\* ---- C21 ------------------------------------------------------------------
\* r = (1 - altitude / 90) * radius, in hundredths of a pixel.
RadialOffset(c) ==
    MulDiv(Sub(9000, c.altitude), Mul(JsMin(DivInt(c.size.width, 2), DivInt(c.size.height, 2)), 950), 9000)

\* The point at (dx, dy) from the viewport center, up to the rounding of the
\* fixed-point sine and cosine.
PlacedAt(c, dx, dy) ==
    /\ Abs(c.pt.x - (DivInt(c.size.width, 2) + dx)) <= Abs(RadialOffset(c)) \div 250 + 3
    /\ Abs(c.pt.y - (DivInt(c.size.height, 2) + dy)) <= Abs(RadialOffset(c)) \div 250 + 3

\* C21: with rotation 0, projectToScreen places azimuth 0 (north) straight
\* above the center (x = centerX, y = centerY - r), azimuth 90 to the right,
\* 180 below and 270 to the left; and a rotation offset acts exactly like the
\* same offset added to the azimuth: projectToScreen(az, alt, size, rot) =
\* projectToScreen(az + rot, alt, size, 0).
CompassPlacement ==
    ProjectionApplication =>
        /\ call.pt = projectToScreen(call.azimuth + call.rotation, call.altitude, call.size, 0)
        /\ (call.rotation = 0 /\ call.azimuth = 0) => PlacedAt(call, 0, 0 - RadialOffset(call))
        /\ (call.rotation = 0 /\ call.azimuth = 9000) => PlacedAt(call, RadialOffset(call), 0)
        /\ (call.rotation = 0 /\ call.azimuth = 18000) => PlacedAt(call, 0, RadialOffset(call))
        /\ (call.rotation = 0 /\ call.azimuth = 27000) => PlacedAt(call, 0 - RadialOffset(call), 0)

\* West has been projected on the horizon of a landscape viewport turned by
\* 90 degrees: it lies where north lies without rotation, above the center.
TurnedCompassWitness ==
    /\ ProjectionApplication
    /\ call.azimuth = 27000 /\ call.rotation = 9000 /\ call.altitude = 0
    /\ call.size = [width |-> 80000, height |-> 60000]
    /\ call.pt = projectToScreen(0, 0, call.size, 0)
    /\ call.pt.y < 30000 - 28000
    /\ Abs(call.pt.x - 40000) < 200

\* ---- C22 ------------------------------------------------------------------
\* The result of the call with the arguments of an activation, run alone.
RunAlone(frame) == Memo(frame).result

\* C22: interleaved invocations of calculateObjectPosition (one per body, per
\* frame) need no coordination: no invocation reads a variable that another
\* invocation writes, so the result of each invocation under any interleaving
\* equals its result when run alone.
InterleavingKeepsResults ==
    \A frame \in {call, first} :
        (frame # NoCall /\ frame.op = "activation" /\ frame.pc = "returned") =>
            frame.result = RunAlone(frame)

\* The calls for two planets have both returned after each of them was
\* suspended in the middle of its work.
InterleavedPlanetsWitness ==
    /\ At("returned")
    /\ first.pc = "returned"
    /\ call.obj.id = "mars"
    /\ first.obj.id = "venus"
    /\ since >= 2
    /\ IsNum(call.result.x)
    /\ call.result # first.result

\* ---- C23 ------------------------------------------------------------------
\* The reply is a failure whose message names a rate limit ('429',
\* 'resource_exhausted' or 'quota', in either case).
RateLimited(op, reply) ==
    /\ TryBody(op, reply).threw
    /\ \E n \in DOMAIN TryBody(op, reply).message :
         TryBody(op, reply).message[n] \in {"429", "RESOURCE_EXHAUSTED", "resource_exhausted", "Quota", "quota"}

\* The requests made so far and the value returned, for one activation.
RetryLaw(frame) ==
    LET made == Len(frame.replies) + (IF frame.pc = "await" THEN 1 ELSE 0)
        last == frame.replies[Len(frame.replies)]
    IN  /\ made <= frame.maxRetries
        /\ \A k \in 1..(made - 1) : RateLimited(frame.op, frame.replies[k]) /\ k < frame.maxRetries
        /\ ~frame.API_KEY => (made = 0 /\ frame.pc = "returned" /\ frame.result = Null)
        /\ (Len(frame.replies) > 0 /\ ~TryBody(frame.op, last).threw) =>
               (frame.pc = "returned" /\ frame.result = TryBody(frame.op, last).value)
        /\ (Len(frame.replies) > 0 /\ TryBody(frame.op, last).threw
              /\ (~RateLimited(frame.op, last) \/ Len(frame.replies) = frame.maxRetries)) =>
               (frame.pc = "returned" /\ frame.result = Null)
        /\ frame.pc = "returned" => frame.result # Undefined

\* C23: generateJson (and the same loop in generateCelestialBodyImage) makes a
\* (k+1)-th API call only if the previous k calls all failed with a
\* rate-limit error and k < maxRetries; it makes at most maxRetries calls,
\* returns the parsed result of the first successful call, returns null right
\* after the first other error or after the maxRetries-th failure, makes no
\* call when the API key is missing, and always terminates with a value or
\* null.
RetryContract ==
    /\ [](Generating => RetryLaw(call))
    /\ (Generating /\ call.pc # "returned") ~> (Generating /\ call.pc = "returned")

\* generateJson has returned the parsed text of its third request, after two
\* rate-limit errors.
ThirdAttemptWitness ==
    /\ Generating
    /\ call.op = "generateJson"
    /\ call.pc = "returned"
    /\ call.maxRetries = 3
    /\ Len(call.replies) = 3
    /\ call.attempt = 2
    /\ call.replies[1].message = <<"RESOURCE_EXHAUSTED">>
    /\ call.result = [type |-> "object", city |-> "Rabat"]

\* ---- C24 ------------------------------------------------------------------
\* The item found under the key can be read: it is a non-empty text that
\* parses.
Readable(cachedItem) ==
    Len(cachedItem) > 0 /\ cachedItem[1] # "" /\ ~JsonParse(cachedItem[1]).threw

\* fetchFn runs only without a readable item, the cache is written only with
\* a non-null fetched item, and null is never in the cache.
CacheLaw ==
    /\ (Caching /\ call.fetched) => ~Readable(call.cachedItem)
    /\ (Caching /\ call.pc = "returned" /\ ~Readable(call.cachedItem)) => call.fetched
    /\ (Caching /\ call.stored) =>
           (call.fetched /\ call.result # Null /\ app.sessionStorage[call.key] = <<JsonStringify(call.result)>>)
    /\ (Caching /\ call.pc = "returned" /\ ~call.stored) => app.sessionStorage[call.key] = call.cachedItem
                                                              \/ (app.sessionStorage[call.key] = <<>> /\ ~Readable(call.cachedItem))
    /\ \A key \in DOMAIN app.sessionStorage : app.sessionStorage[key] # <<"null">>

\* C24 as stated: getCachedOrFetch invokes fetchFn only when the session
\* cache holds no readable entry for the key, and writes the cache only with
\* a non-null fetched result: after a call for key K has returned a non-null
\* value, every later call for K returns that value without invoking
\* fetchFn, while a null result is never cached, so the next call for K
\* fetches again.
CachedAfterReturn ==
    /\ CacheLaw
    /\ (Caching /\ call.pc = "returned" /\ call.returned # Undefined) =>
           (~call.fetched /\ call.result = call.returned)

\* C24, amended: the same, for the values a call has stored: after a call for
\* key K has stored the non-null value it fetched (setItem did not throw),
\* every later call for K returns that value without invoking fetchFn; a
\* value that could not be stored is fetched again by the next call.
CachedAfterStore ==
    /\ CacheLaw
    /\ (Caching /\ call.pc = "returned" /\ call.written # Undefined) =>
           (~call.fetched /\ call.result = call.written /\ call.result = call.returned)
    /\ (Caching /\ call.pc = "returned" /\ call.written = Undefined /\ call.cachedItem = <<>>) => call.fetched

\* A later call for the image of Mars has returned the stored image without
\* a fetch.
CacheHitWitness ==
    /\ Caching
    /\ call.pc = "returned"
    /\ call.key = "celestialImage-mars"
    /\ call.written = [type |-> "string", imageBytes |-> "/9j/4AAQ"]
    /\ ~call.fetched
    /\ call.result = call.written

\* ---- C25 ------------------------------------------------------------------
\* A request of the latest click is still in flight.
AwaitsLatest(kind) ==
    \E request \in app.requests : request.kind = kind /\ request.click = app.clicks

\* C25: whenever the celestial-body modal is open with non-null details (or
\* image), they were fetched for the currently selected body id: under any
\* interleaving of body clicks and response arrivals, a response to an
\* earlier click never replaces the content or clears the loading flag of a
\* later-clicked body.
ModalShowsSelectedBody ==
    app.selectedBodyId # "null" =>
        /\ app.modalDetails # Null => app.modalDetails.name = app.selectedBodyId
        /\ app.modalImage # Null => app.modalImage.of = app.selectedBodyId
        /\ AwaitsLatest("details") => app.loading.modal
        /\ AwaitsLatest("image") => app.loading.modalImage

\* ---- C26 ------------------------------------------------------------------
\* The bounds of the score and of the index while a quiz is on screen.
QuizBounds ==
    app.questions # Null =>
        /\ 0 <= app.score
        /\ app.score <= Len(app.submitted)
        /\ Len(app.submitted) <= Len(app.questions.items)
        /\ app.currentQuestionIndex <= Len(app.questions.items)
        /\ \A m, n \in DOMAIN app.submitted : m # n => app.submitted[m] # app.submitted[n]

\* The score changes by a correct submission (+1) or by the start of a quiz
\* (to 0, at question 0).
ScoreStep ==
    /\ app'.score # app.score =>
         \/ /\ app'.score = app.score + 1
            /\ Len(app'.submitted) = Len(app.submitted) + 1
            /\ app.selectedAnswer = app.questions.items[app.currentQuestionIndex + 1].correctAnswer
         \/ app'.score = 0 /\ app'.questions # app.questions
    /\ (app'.questions # app.questions /\ app'.questions # Null) =>
         (app'.score = 0 /\ app'.currentQuestionIndex = 0 /\ app'.submitted = <<>>)

\* C26: in the quiz, after any sequence of start, select, submit, next and
\* play-again actions, 0 <= score <= number of submitted answers <=
\* questions.length and currentQuestionIndex <= questions.length; score grows
\* by exactly 1 only on submitting an answer equal to the current question's
\* correctAnswer, each question is submitted at most once, and a newly
\* started quiz begins with score 0 at question 0.
QuizScoreLaw == []QuizBounds /\ [][ScoreStep]_vars

\* A quiz of three questions is finished with two right answers and a wrong
\* one.
QuizFinishedWitness ==
    /\ app.questions # Null
    /\ Len(app.questions.items) = 3
    /\ app.currentQuestionIndex = 3
    /\ app.score = 2
    /\ app.submitted = <<0, 1, 2>>

\* ---- C27 ------------------------------------------------------------------
\* C27: skyRotation stays within [0, 360) after any sequence of mouse or
\* touch drag moves, whatever the horizontal displacement dx of each move.
SkyRotationInRange ==
    0 <= app.skyRotation /\ app.skyRotation < 36000

\* ---- C28 ------------------------------------------------------------------
\* C28: the Earth eccentricity used by getPlanetPosition, e_earth =
\* 0.016708634 - 0.000042037 * d with d in days since J2000.0, stays within
\* [0, 1) for every timestamp the application can reach, so sqrt(1 -
\* e_earth^2) is always defined and the Earth position is never NaN.
EarthEccentricityInRange ==
    /\ 0 <= EarthEccentricity(EpochDays(app.simTime))
    /\ EarthEccentricity(EpochDays(app.simTime)) < Scale
    /\ IsNum(Sqrt(Sub(Scale, Mul(EarthEccentricity(EpochDays(app.simTime)),
                                 EarthEccentricity(EpochDays(app.simTime))))))

\* ---- C29 ------------------------------------------------------------------
\* One step of the application, seen from simTime.
FrameStep ==
    /\ app'.handler = "animate" /\ app'.frames # app.frames =>
         app'.simTime = IF app.isPlaying /\ app.currentPage = "observatory"
                        THEN AddMs(app.simTime, 2500) ELSE app.simTime
    /\ (app'.simTime # app.simTime /\ ~(app.isPlaying /\ app.currentPage = "observatory")) =>
         app'.handler \in {"handleTimeChange", "now"}
    /\ app'.simTime # app.simTime => app'.handler \in {"animate", "handleTimeChange", "now"}

\* C29: each animation frame advances simTime by exactly 2500 ms when
\* isPlaying is true and the current page is 'observatory', and leaves
\* simTime unchanged otherwise; while paused or on the education or quiz
\* page, simTime changes only through the time slider or the 'now' button.
FrameAdvancesSimTime == [][FrameStep]_vars

\* Two frames have carried the simulated time over midnight, and a frame
\* on the quiz page has left it alone.
MidnightFrameWitness ==
    /\ app.handler = "animate"
    /\ app.currentPage = "quiz"
    /\ app.frames = 3
    /\ app.simTime = [day |-> 20760, ms |-> 1000, tz |-> 0]

\* ---- C30 ------------------------------------------------------------------
\* The texts that denote a number within the bounds, in hundredths.
NumberWithin(text, bound) ==
    /\ text \in {"48.85", "-33.87", "90", "-90", "90.01", "180", "-180", "-180.5", "1e3", "12abc", "0", "2.35"}
    /\ parseFloat(text) >= 0 - bound
    /\ parseFloat(text) <= bound

\* C30: manual coordinate entry sets the observer coordinates only when both
\* fields parse to numbers with latitude in [-90, 90] and longitude in
\* [-180, 180]; on any other input the coordinates are left unchanged (still
\* unset) and the user is alerted, so coordinates entered manually are
\* always in range.
ManualEntryValidated ==
    /\ app.coordinates # Null =>
         /\ NumberWithin(app.latitude, 9000) /\ NumberWithin(app.longitude, 18000)
         /\ app.coordinates = [latitude |-> parseFloat(app.latitude), longitude |-> parseFloat(app.longitude)]
         /\ ~app.alerted
    /\ (NumberWithin(app.latitude, 9000) /\ NumberWithin(app.longitude, 18000)) => app.coordinates # Null
    /\ (app.coordinates = Null /\ <<app.latitude, app.longitude>> # <<"", "">>) => app.alerted

\* The form has been submitted with a latitude just beyond the pole: the
\* user is alerted and the coordinates stay unset.
RejectedLatitudeWitness ==
    /\ app.latitude = "90.01"
    /\ app.longitude = "-180"
    /\ app.coordinates = Null
    /\ app.alerted
====
